---------------------------- MODULE Spec2Model ----------------------------
(***************************************************************************)
(* Constrained generation pipeline of XPostLab.                            *)
(*                                                                         *)
(*   apps/api/src/lib/persona-engine.ts      PersonaEngine.validateOutput, *)
(*                                           token-utils (countTokens,     *)
(*                                           truncateToTokenLimit,         *)
(*                                           clampToCharLimit,             *)
(*                                           applyOutputLimits)            *)
(*   apps/api/src/services/composer-service.ts                             *)
(*                                           generateFromBrainDump,        *)
(*                                           resolvePersonaConfig,         *)
(*                                           generateSync,                 *)
(*                                           generateWithDirectOllama,     *)
(*                                           parseGeneratedContent         *)
(*                                                                         *)
(* A text is a sequence of one-character strings.  The texts of the model  *)
(* are ASCII plus one pictographic character, so a UTF-16 length, a byte   *)
(* length and a number of characters coincide.                             *)
(***************************************************************************)
EXTENDS Integers, Sequences, FiniteSets, TLC

\* ------------------------------------------------------------------------
\* Characters
\* ------------------------------------------------------------------------

LowerLetters ==
  <<"a","b","c","d","e","f","g","h","i","j","k","l","m",
    "n","o","p","q","r","s","t","u","v","w","x","y","z">>

UpperLetters ==
  <<"A","B","C","D","E","F","G","H","I","J","K","L","M",
    "N","O","P","Q","R","S","T","U","V","W","X","Y","Z">>

Letters == {LowerLetters[k] : k \in 1..26} \cup {UpperLetters[k] : k \in 1..26}

Digits == {"0","1","2","3","4","5","6","7","8","9"}

\* One character of \p{Extended_Pictographic} (U+263A, one UTF-16 unit).
Pictograph == "EMOJI"

Newlines == {"\n"}

Whitespace == {" ", "\n"}

\* The backtick character (U+0060).
Backtick == "BACKTICK"

QuoteChars == {"'", "\"", Backtick}

\* Every other character: neither \s nor \p{L} nor \p{N}.
Punct == {"#", ".", "!", "?", ",", ":", "-", "_", "'", "\"", Backtick, Pictograph}

Alphabet == Letters \cup Digits \cup Whitespace \cup Punct

\* \w of a JavaScript regular expression.
WordChars == Letters \cup Digits \cup {"_"}

\* String.prototype.toLowerCase on the upper-case letters.
LowerOf ==
  ("A" :> "a") @@ ("B" :> "b") @@ ("C" :> "c") @@ ("D" :> "d") @@ ("E" :> "e") @@ ("F" :> "f")
  @@ ("G" :> "g") @@ ("H" :> "h") @@ ("I" :> "i") @@ ("J" :> "j") @@ ("K" :> "k") @@ ("L" :> "l")
  @@ ("M" :> "m") @@ ("N" :> "n") @@ ("O" :> "o") @@ ("P" :> "p") @@ ("Q" :> "q") @@ ("R" :> "r")
  @@ ("S" :> "s") @@ ("T" :> "t") @@ ("U" :> "u") @@ ("V" :> "v") @@ ("W" :> "w") @@ ("X" :> "x")
  @@ ("Y" :> "y") @@ ("Z" :> "z")

\* String.prototype.toLowerCase on one character.
LowerChar(c) == IF c \in DOMAIN LowerOf THEN LowerOf[c] ELSE c

toLowerCase(s) == SubSeq([k \in 1..Len(s) |-> LowerChar(s[k])], 1, Len(s))

\* ------------------------------------------------------------------------
\* String primitives
\* ------------------------------------------------------------------------

\* Body at the value of v. The value is computed once and Body reads it as
\* often as it likes; every operator on texts below binds its text so.
With(v, Body(_)) == CHOOSE r \in {Body(x) : x \in {v}} : TRUE

Min(a, b) == IF a < b THEN a ELSE b

Max(a, b) == IF a > b THEN a ELSE b

\* Index of the last character of the maximal run of characters of S that
\* starts at p (p - 1 when s[p] is not in S).
RunEnd(s, p, S) ==
  CHOOSE q \in (p - 1)..Len(s) :
    /\ (q = Len(s) \/ s[q + 1] \notin S)
    /\ \A k \in p..q : s[k] \in S

\* Index of the first character of the maximal run of characters of S that
\* ends at p (p + 1 when s[p] is not in S).
RunStart(s, p, S) ==
  p - (CHOOSE d \in (-1)..(p - 1) :
         /\ (d = p - 1 \/ s[p - d - 1] \notin S)
         /\ \A k \in (p - d)..p : s[k] \in S)

\* What a rewriting pass leaves of a character it removes.
Drop == "DROP"

\* The text whose q-th character is rewritten to At(q), or removed when
\* At(q) is Drop: a global replace whose matches are decided place by place.
Rewrite(s, At(_)) == SelectSeq([q \in 1..Len(s) |-> At(q)], LAMBDA c : c # Drop)

\* String.prototype.slice(a, b) with 0-based a, b within 0..length.
slice(s, a, b) == SubSeq(s, a + 1, b)

\* t occurs in s at the 1-based position p.
OccursAt(s, t, p) ==
  /\ p >= 1
  /\ p + Len(t) - 1 <= Len(s)
  /\ \A k \in 1..Len(t) : s[p + k - 1] = t[k]

\* String.prototype.indexOf, 0-based, -1 when absent.
indexOf(text, t) ==
  With(text, LAMBDA s :
    IF \E p \in 1..(Len(s) + 1) : OccursAt(s, t, p)
      THEN (CHOOSE p \in 1..(Len(s) + 1) :
              /\ OccursAt(s, t, p)
              /\ \A r \in 1..(p - 1) : ~OccursAt(s, t, r)) - 1
      ELSE -1)

includes(s, t) == indexOf(s, t) >= 0

\* The text without its trailing run of characters of S.
DropTrailing(text, S) ==
  With(text, LAMBDA s :
    IF \A k \in 1..Len(s) : s[k] \in S
      THEN <<>>
      ELSE SubSeq(s, 1, CHOOSE q \in 1..Len(s) :
                          /\ s[q] \notin S
                          /\ \A k \in (q + 1)..Len(s) : s[k] \in S))

\* The text without its leading run of characters of S.
DropLeading(text, S) ==
  With(text, LAMBDA s : SubSeq(s, RunEnd(s, 1, S) + 1, Len(s)))

trimEnd(s) == DropTrailing(s, Whitespace)

trimStart(s) == DropLeading(s, Whitespace)

trim(s) == trimEnd(trimStart(s))

RECURSIVE Concat(_)
\* Array.prototype.join with an empty separator, on a list of texts.
Concat(ts) == IF ts = <<>> THEN <<>> ELSE Head(ts) \o Concat(Tail(ts))

RECURSIVE JoinWith(_, _)
\* Array.prototype.join(sep)
JoinWith(ts, sep) ==
  IF ts = <<>> THEN <<>>
  ELSE IF Len(ts) = 1 THEN ts[1]
  ELSE ts[1] \o sep \o JoinWith(Tail(ts), sep)

\* Array.from(new Set(xs)): first occurrences, in order.
Dedupe(list) ==
  With(list, LAMBDA xs :
    SelectSeq([k \in 1..Len(xs) |->
                 IF \E j \in 1..(k - 1) : xs[j] = xs[k] THEN <<Drop>> ELSE xs[k]],
              LAMBDA x : x # <<Drop>>))

\* Optional values: <<>> is undefined, <<x>> is x.
None == <<>>

Some(x) == <<x>>

\* a ?? b on optional a.
Coalesce(opt, dflt) == IF opt = None THEN dflt ELSE opt[1]

\* ------------------------------------------------------------------------
\* token-utils: the cl100k_base tokenizer
\* ------------------------------------------------------------------------

\* approxCharsPerToken()
approxCharsPerToken == 4

\* End of the pre-tokenizer piece starting at p, after the pat_str of cl100k_base
\*   (?i:[sdmt]|ll|ve|re after an apostrophe) | [^\r\n\p{L}\p{N}]?\p{L}+ | \p{N}{1,3}
\*   | ?[^\s\p{L}\p{N}]+[\r\n]* | \s*[\r\n]+ | \s+(?!\S) | \s+
PieceEnd(s, p) ==
  LET n  == Len(s)
      c  == s[p]
      c1 == IF p + 1 <= n THEN LowerChar(s[p + 1]) ELSE ""
      c2 == IF p + 2 <= n THEN LowerChar(s[p + 2]) ELSE ""
      ws == RunEnd(s, p, Whitespace)
  IN CASE c = "'" /\ c1 \in {"s", "t", "m", "d"} -> p + 1
       [] c = "'" /\ <<c1, c2>> \in {<<"r","e">>, <<"v","e">>, <<"l","l">>} -> p + 2
       [] c \notin (Newlines \cup Letters \cup Digits) /\ p + 1 <= n /\ s[p + 1] \in Letters
            -> RunEnd(s, p + 1, Letters)
       [] c \in Letters -> RunEnd(s, p, Letters)
       [] c \in Digits -> Min(RunEnd(s, p, Digits), p + 2)
       [] c = " " /\ p + 1 <= n /\ s[p + 1] \in Punct
            -> RunEnd(s, RunEnd(s, p + 1, Punct) + 1, Newlines)
       [] c \in Punct -> RunEnd(s, RunEnd(s, p, Punct) + 1, Newlines)
       [] c \in Whitespace /\ (\E k \in p..ws : s[k] \in Newlines)
            -> CHOOSE q \in p..ws :
                 s[q] \in Newlines /\ \A k \in (q + 1)..ws : s[k] \notin Newlines
       [] c \in Whitespace /\ ws = n -> ws
       [] c \in Whitespace /\ ws > p -> ws - 1
       [] OTHER -> ws

\* encoding.bpe_ranks, abstracted to the length of the longest character
\* sequence the ranks merge into one token. It is larger than
\* approxCharsPerToken: a token of cl100k_base is often a whole word.
MergeWidth == 5

\* Byte-pair merging inside one piece s[p..q], abstracted: consecutive
\* tokens of at most MergeWidth characters.
Chunks(s, p, q) ==
  [k \in 1..((q - p + MergeWidth) \div MergeWidth) |->
     SubSeq(s, p + (k - 1) * MergeWidth, Min(q, p + k * MergeWidth - 1))]

RECURSIVE EncodeFrom(_, _)
EncodeFrom(s, p) ==
  IF p > Len(s) THEN <<>>
  ELSE With(PieceEnd(s, p), LAMBDA q : Chunks(s, p, q) \o EncodeFrom(s, q + 1))

\* tokenizer.encode: the tokens of a text, each token the text it stands for.
encode(text) == With(text, LAMBDA s : EncodeFrom(s, 1))

\* tokenizer.decode
decode(tokens) == Concat(tokens)

countTokens(text) == With(text, LAMBDA s : IF s = <<>> THEN 0 ELSE Len(encode(s)))

\* truncateToTokenLimit returning the token count of its input.
truncateCountingInput(text, maxTokens) ==
  With(text, LAMBDA normalized :
    IF maxTokens <= 0
      THEN [text |-> <<>>, tokens |-> 0, wasTruncated |-> Len(normalized) > 0]
    ELSE With(encode(normalized), LAMBDA tokens :
      IF Len(tokens) <= maxTokens
        THEN [text |-> normalized, tokens |-> Len(tokens), wasTruncated |-> FALSE]
      ELSE [text |-> decode(SubSeq(tokens, 1, maxTokens)),
            tokens |-> Len(tokens),
            wasTruncated |-> TRUE]))

truncateToTokenLimit(text, maxTokens) ==
  With(text, LAMBDA normalized :
    IF maxTokens <= 0
      THEN [text |-> <<>>, tokens |-> 0, wasTruncated |-> Len(normalized) > 0]
    ELSE With(encode(normalized), LAMBDA tokens :
      IF Len(tokens) <= maxTokens
        THEN [text |-> normalized, tokens |-> Len(tokens), wasTruncated |-> FALSE]
      ELSE [text |-> decode(SubSeq(tokens, 1, maxTokens)),
            tokens |-> Len(SubSeq(tokens, 1, maxTokens)),
            wasTruncated |-> TRUE]))

Ellipsis == <<".", ".", ".">>

\* clampToCharLimit keeping the whitespace the cut ends on.
clampKeepingWhitespace(text, maxLength) ==
  With(text, LAMBDA normalized :
    IF maxLength <= 0 THEN <<>>
    ELSE IF Len(normalized) <= maxLength THEN normalized
    ELSE IF maxLength <= 3 THEN slice(normalized, 0, maxLength)
    ELSE slice(normalized, 0, maxLength - 3) \o Ellipsis)

\* clampToCharLimit leaving no room for the ellipsis.
clampWithoutRoom(text, maxLength) ==
  With(text, LAMBDA normalized :
    IF maxLength <= 0 THEN <<>>
    ELSE IF Len(normalized) <= maxLength THEN normalized
    ELSE trimEnd(slice(normalized, 0, maxLength)) \o Ellipsis)

clampToCharLimit(text, maxLength) ==
  With(text, LAMBDA normalized :
    IF maxLength <= 0 THEN <<>>
    ELSE IF Len(normalized) <= maxLength THEN normalized
    ELSE IF maxLength <= 3 THEN slice(normalized, 0, maxLength)
    ELSE trimEnd(slice(normalized, 0, maxLength - 3)) \o Ellipsis)

\* The running values of applyOutputLimits: currentText, wasTruncated,
\* tokenOverflow, charOverflow.
LimitsStart(text) ==
  [text |-> text, wasTruncated |-> FALSE, tokenOverflow |-> 0, charOverflow |-> 0]

\* TokenPass measuring the overflow on the truncated text.
TokenPassMeasuringAfter(state, maxTokens) ==
  With(state, LAMBDA st :
    With(countTokens(st.text), LAMBDA tokens :
      IF maxTokens > 0 /\ tokens > maxTokens
        THEN With(truncateToTokenLimit(st.text, maxTokens), LAMBDA truncated :
               [st EXCEPT !.text = truncated.text,
                          !.tokenOverflow = Max(st.tokenOverflow, truncated.tokens - maxTokens),
                          !.wasTruncated = TRUE])
        ELSE st))

\* if (maxTokens > 0 && tokens > maxTokens) { truncateToTokenLimit ... }:
\* the first and the third block of applyOutputLimits.
TokenPass(state, maxTokens) ==
  With(state, LAMBDA st :
    With(countTokens(st.text), LAMBDA tokens :
      IF maxTokens > 0 /\ tokens > maxTokens
        THEN [st EXCEPT !.text = truncateToTokenLimit(st.text, maxTokens).text,
                        !.tokenOverflow = Max(st.tokenOverflow, tokens - maxTokens),
                        !.wasTruncated = TRUE]
        ELSE st))

\* CharPass that clamps without setting wasTruncated.
CharPassUnflagged(state, maxLength) ==
  With(state, LAMBDA st :
    IF maxLength > 0 /\ Len(st.text) > maxLength
      THEN [st EXCEPT !.text = clampToCharLimit(st.text, maxLength),
                      !.charOverflow = Max(st.charOverflow, Len(st.text) - maxLength)]
      ELSE st)

\* if (maxLength > 0 && currentText.length > maxLength) { clampToCharLimit ... }:
\* the second and the fourth block.
CharPass(state, maxLength) ==
  With(state, LAMBDA st :
    IF maxLength > 0 /\ Len(st.text) > maxLength
      THEN [st EXCEPT !.text = clampToCharLimit(st.text, maxLength),
                      !.charOverflow = Max(st.charOverflow, Len(st.text) - maxLength),
                      !.wasTruncated = TRUE]
      ELSE st)

\* The final accounting and the returned record.
LimitsEnd(state, maxTokens, maxLength) ==
  With(state, LAMBDA st :
    With(countTokens(st.text), LAMBDA finalTokens :
      [text |-> st.text,
       tokens |-> finalTokens,
       wasTruncated |-> st.wasTruncated,
       tokenOverflow |-> IF maxTokens > 0 /\ finalTokens > maxTokens
                           THEN Max(st.tokenOverflow, finalTokens - maxTokens)
                           ELSE st.tokenOverflow,
       charOverflow |-> IF maxLength > 0 /\ Len(st.text) > maxLength
                          THEN Max(st.charOverflow, Len(st.text) - maxLength)
                          ELSE st.charOverflow]))

\* applyOutputLimits with one token pass and one character pass.
applyOutputLimitsOnce(text, maxTokens, maxLength) ==
  LimitsEnd(CharPass(TokenPass(LimitsStart(text), maxTokens), maxLength),
            maxTokens, maxLength)

applyOutputLimits(text, maxTokens, maxLength) ==
  LimitsEnd(CharPass(TokenPass(CharPass(TokenPass(LimitsStart(text), maxTokens),
                                        maxLength),
                               maxTokens),
                     maxLength),
            maxTokens, maxLength)

\* ------------------------------------------------------------------------
\* composer-service: parseGeneratedContent
\* ------------------------------------------------------------------------

\* replace(/[S]/g, '')
RemoveAll(s, S) == SelectSeq(s, LAMBDA c : c \notin S)

\* replace(/^['"`]+|['"`]+$/g, '')
stripQuotes(s) == DropTrailing(DropLeading(s, QuoteChars), QuoteChars)

\* replace(/^```(?:[a-zA-Z]+)?\s*([\s\S]*?)\s*```$/g, '$1')
stripFence(text) ==
  With(text, LAMBDA s :
    LET n == Len(s)
        fence == <<Backtick, Backtick, Backtick>>
    IN IF n >= 6 /\ SubSeq(s, 1, 3) = fence /\ SubSeq(s, n - 2, n) = fence
         THEN trim(DropLeading(SubSeq(s, 4, n - 3), Letters))
         ELSE s)

FieldLabels ==
  << <<"h","o","o","k">>, <<"b","o","d","y">>, <<"c","t","a">>,
     <<"c","o","p","y">>, <<"v","a","r","i","a","n","t">> >>

\* Last index of a match of /\b(?:Hook|Body|CTA|Copy|Variant)\s*[:\-]\s*/i
\* that starts at p, 0 when there is none.
LabelMatchEnd(s, p) ==
  LET n == Len(s)
      boundary == s[p] \in WordChars /\ (p = 1 \/ s[p - 1] \notin WordChars)
      hits == {k \in 1..Len(FieldLabels) :
                 /\ p + Len(FieldLabels[k]) - 1 <= n
                 /\ \A j \in 1..Len(FieldLabels[k]) :
                      LowerChar(s[p + j - 1]) = FieldLabels[k][j]}
  IN IF ~boundary \/ hits = {} THEN 0
     ELSE LET k == CHOOSE h \in hits : TRUE
              a == RunEnd(s, p + Len(FieldLabels[k]), Whitespace)
          IN IF a + 1 <= n /\ s[a + 1] \in {":", "-"}
               THEN RunEnd(s, a + 2, Whitespace)
               ELSE 0

\* replace(/\b(?:Hook|Body|CTA|Copy|Variant)\s*[:\-]\s*/gi, ''): a match
\* cannot start inside another one, so a character goes when it lies in
\* the match of any start.
stripLabels(text) ==
  With(text, LAMBDA s :
    LET At(q) == IF \E m \in 1..q : LabelMatchEnd(s, m) >= q THEN Drop ELSE s[q]
    IN Rewrite(s, At))

cutoffMarkers ==
  << <<"\n","R","e","p","l","i","e","s">>,
     <<"\n","R","e","p","l","y">>,
     <<"\n","-","-","-">>,
     <<"\n","#"," ","R","e","p","l","i","e","s">>,
     <<"\n","A","d","d","i","t","i","o","n","a","l"," ","c","o","n","t","e","x","t">>,
     <<"\n","N","o","t","e","s">> >>

RECURSIVE ApplyCutoffs(_, _)
\* The loop over cutoffMarkers, from the k-th marker on.
ApplyCutoffs(text, k) ==
  IF k > Len(cutoffMarkers) THEN text
  ELSE With(text, LAMBDA s :
         With(indexOf(toLowerCase(s), toLowerCase(cutoffMarkers[k])), LAMBDA idx :
           ApplyCutoffs(IF idx >= 0 THEN trim(slice(s, 0, idx)) ELSE s, k + 1)))

\* replace(/\s+\n/g, ' '): in a run of whitespace whose last newline is
\* not its first character, the run up to that newline becomes one space.
replaceWsNewline(text) ==
  With(text, LAMBDA s :
    LET At(q) ==
          IF s[q] \notin Whitespace THEN s[q]
          ELSE LET a == RunStart(s, q, Whitespace)
                   b == RunEnd(s, q, Whitespace)
                   nls == {r \in (Max(a + 1, q))..b : s[r] \in Newlines}
               IN IF nls = {} THEN s[q]
                  ELSE IF q = a THEN " " ELSE Drop
    IN Rewrite(s, At))

\* replace(/[S]{least,}/g, ' '): a maximal run of at least that many
\* characters of S becomes one space.
CollapseRuns(text, S, least) ==
  With(text, LAMBDA s :
    LET At(q) ==
          IF s[q] \notin S THEN s[q]
          ELSE LET a == RunStart(s, q, S)
               IN IF RunEnd(s, q, S) - a + 1 < least THEN s[q]
                  ELSE IF q = a THEN " " ELSE Drop
    IN Rewrite(s, At))

\* replace(/\n+/g, ' ')
replaceNewlines(s) == CollapseRuns(s, Newlines, 1)

\* replace(/\s{2,}/g, ' ')
collapseWhitespace(s) == CollapseRuns(s, Whitespace, 2)

\* The characters of [^\s#].
TagChars == Alphabet \ (Whitespace \cup {"#"})

\* Last index of a match of /#[^\s#]+/ that starts at p, 0 when none.
HashtagEnd(s, p) ==
  IF p >= 1 /\ p + 1 <= Len(s) /\ s[p] = "#" /\ s[p + 1] \in TagChars
    THEN RunEnd(s, p + 1, TagChars)
    ELSE 0

\* sanitized.match(/#[^\s#]+/g), [] for null
matchHashtags(text) ==
  With(text, LAMBDA s :
    SelectSeq([q \in 1..Len(s) |->
                 IF HashtagEnd(s, q) > 0 THEN SubSeq(s, q, HashtagEnd(s, q)) ELSE <<>>],
              LAMBDA tag : tag # <<>>))

\* Last index of a match of /(?:^|\s)#[^\s#]+/ that starts at p, 0 when none.
SpacedHashtagEnd(s, p) ==
  IF p = 1 /\ HashtagEnd(s, p) > 0 THEN HashtagEnd(s, p)
  ELSE IF p >= 1 /\ p <= Len(s) /\ s[p] \in Whitespace THEN HashtagEnd(s, p + 1)
  ELSE 0

\* replace(/(?:^|\s)#[^\s#]+/g, (match) => (match.startsWith(' ') ? ' ' : '')):
\* a match cannot start inside another one; of a match, its leading space
\* stays and nothing else.
stripHashtags(text) ==
  With(text, LAMBDA s :
    LET At(q) ==
          IF SpacedHashtagEnd(s, q) > 0 THEN (IF s[q] = " " THEN " " ELSE Drop)
          ELSE IF \E m \in 1..q : SpacedHashtagEnd(s, m) >= q THEN Drop
          ELSE s[q]
    IN Rewrite(s, At))

generateHashtags(platform) ==
  CASE platform = "twitter" ->
         << <<"#","c","o","n","t","e","n","t","c","r","e","a","t","i","o","n">>,
            <<"#","s","o","c","i","a","l","m","e","d","i","a">> >>
    [] platform = "linkedin" ->
         << <<"#","p","r","o","d","u","c","t","i","v","i","t","y">>,
            <<"#","b","u","s","i","n","e","s","s">> >>
    [] platform = "instagram" ->
         << <<"#","c","r","e","a","t","i","v","i","t","y">>,
            <<"#","i","n","s","p","i","r","a","t","i","o","n">> >>
    [] OTHER -> <<>>

\* 'Preview unavailable.'
PreviewUnavailable ==
  <<"P","r","e","v","i","e","w"," ","u","n","a","v","a","i","l","a","b","l","e",".">>

\* The metadata of a freshly parsed variant; tokenLength, wasTruncated and
\* the original*/over* fields are absent (wasTruncated absent reads FALSE).
FreshMetadata(len) ==
  [length |-> len, tokenLength |-> None, wasTruncated |-> FALSE,
   originalLength |-> None, originalContent |-> None,
   overLimit |-> None, overTokenLimit |-> None]

\* extracted.map((tag) => tag.trim())
TrimEach(tags) == [k \in 1..Len(tags) |-> trim(tags[k])]

\* parseGeneratedContent up to the hashtag block: quotes, fence, field
\* labels, cutoff markers, pictographs, newlines and whitespace.
SanitizeText(content, includeEmojis) ==
  trim(collapseWhitespace(replaceNewlines(replaceWsNewline(
    IF ~includeEmojis
      THEN RemoveAll(ApplyCutoffs(stripLabels(trim(stripFence(stripQuotes(trim(content))))), 1),
                     {Pictograph})
      ELSE ApplyCutoffs(stripLabels(trim(stripFence(stripQuotes(trim(content))))), 1)))))

\* The hashtag block of parseGeneratedContent: sanitized and hashtags after it.
SanitizeHashtags(text, request) ==
  With(text, LAMBDA s :
    IF ~request.options.includeHashtags
      THEN [text |-> stripHashtags(s), hashtags |-> <<>>]
    ELSE With(matchHashtags(s), LAMBDA found :
      IF found # <<>> \/ generateHashtags(request.platform) = <<>>
        THEN [text |-> s, hashtags |-> TrimEach(found)]
      ELSE With(trim(s \o <<" ">> \o JoinWith(generateHashtags(request.platform), <<" ">>)),
             LAMBDA appended :
               With(matchHashtags(appended), LAMBDA again :
                 [text |-> appended,
                  hashtags |-> TrimEach(IF again = <<>>
                                          THEN generateHashtags(request.platform)
                                          ELSE again)]))))

\* sanitized and hashtags where parseGeneratedContent tests the text for
\* emptiness: after the second emoji pass and the last collapse and trim.
Sanitized(content, request) ==
  With(SanitizeHashtags(SanitizeText(content, request.options.includeEmojis), request),
    LAMBDA tagged :
      [text |-> trim(collapseWhitespace(IF ~request.options.includeEmojis
                                          THEN RemoveAll(tagged.text, {Pictograph})
                                          ELSE tagged.text)),
       hashtags |-> tagged.hashtags])

\* hook, body, cta, sentiment and hookType of a variant are written here
\* and read by no step of the pipeline; they are left out of the record.
parseGeneratedContent(content, variantId, request) ==
  With(Sanitized(content, request), LAMBDA last :
    LET sanitized == IF last.text = <<>> THEN PreviewUnavailable ELSE last.text
    IN [id |-> variantId,
        content |-> sanitized,
        hashtags |-> IF request.options.includeHashtags /\ last.hashtags # <<>>
                       THEN Dedupe(TrimEach(last.hashtags))
                       ELSE last.hashtags,
        metadata |-> FreshMetadata(Len(sanitized))])

\* ------------------------------------------------------------------------
\* persona-engine: PersonaEngine.validateOutput
\* ------------------------------------------------------------------------

CeilDiv(a, b) == (a + b - 1) \div b

getPlatformMaxLength(platform, override) ==
  IF override # None /\ override[1] # 0 THEN override[1]
  ELSE CASE platform = "twitter" -> 280
         [] platform = "linkedin" -> 3000
         [] platform = "instagram" -> 2200
         [] OTHER -> 280

\* The templates of initializeTemplates, as lists of pieces: the
\* {placeholder} tokens, and the text between one token and the next in one
\* piece.
composerPrompt ==
  <<"Create ", "{variants}", " unique social media ", "{postLabel}",
    " from this brain dump or idea: INPUT: ", "{input}",
    " PLATFORM: ", "{platform}",
    " TARGET LENGTH: approximately ", "{maxLength}", " characters MAX TOKENS: ",
    "{maxTokens}", " HASHTAG RULES: ", "{hashtagRules}",
    " EMOJI RULES: ", "{emojiRules}",
    " For each ", "{variantLabel}",
    ", provide: 1. Hook 2. Body 3. CTA Return as JSON array with this structure: [...] Make each ",
    "{variantLabel}", " unique in approach while maintaining the persona's voice.">>

replyPrompt ==
  <<"Generate ", "{variants}", " sharp, value-adding ", "{replyLabel}",
    " to this post: ORIGINAL POST: ", "{originalPost}",
    " AUTHOR: ", "{author}",
    " GOAL: ", "{replyGoal}",
    " HASHTAG RULES: ", "{hashtagRules}",
    " EMOJI RULES: ", "{emojiRules}",
    " Create ", "{replyLabel}",
    " that: - Add genuine value - Show expertise - Feel conversational - Match the persona's voice - Are under ",
    "{maxLength}", " characters Return as JSON array with same structure as composer.">>

\* prompt.split(token).join(value) on a list of pieces; value is a list of
\* pieces too.
splitJoin(prompt, token, value) ==
  Concat([k \in 1..Len(prompt) |-> IF prompt[k] = token THEN value ELSE <<prompt[k]>>])

\* The entries of the replacements record of buildPrompt, in the order
\* Object.entries lists them.
replacements(request) ==
  LET variantCount   == request.options.variants
      maxLengthValue == getPlatformMaxLength(request.platform, request.options.maxLength)
      maxTokensValue == Coalesce(request.options.maxTokens,
                                 CeilDiv(maxLengthValue, approxCharsPerToken))
  IN << <<"{variants}", <<ToString(variantCount)>> >>,
        <<"{variantLabel}", <<IF variantCount = 1 THEN "variant" ELSE "variants">> >>,
        <<"{postLabel}", <<IF variantCount = 1 THEN "post" ELSE "posts">> >>,
        <<"{replyLabel}", <<IF variantCount = 1 THEN "reply" ELSE "replies">> >>,
        <<"{input}", request.input>>,
        <<"{platform}", <<request.platform>> >>,
        <<"{maxLength}", <<ToString(maxLengthValue)>> >>,
        <<"{maxTokens}", <<ToString(maxTokensValue)>> >>,
        <<"{hashtagRules}", <<IF request.options.includeHashtags
                                THEN "Include 1-2 relevant hashtags only when useful."
                                ELSE "Do not include hashtags.">> >>,
        <<"{emojiRules}", <<IF request.options.includeEmojis
                              THEN "Emojis are permitted; use them sparingly."
                              ELSE "Do not use emojis.">> >> >>

RECURSIVE Substitute(_, _)
\* for (const [token, value] of entries) prompt = prompt.split(token).join(value)
Substitute(prompt, entries) ==
  IF entries = <<>> THEN prompt
  ELSE Substitute(splitJoin(prompt, Head(entries)[1], Head(entries)[2]), Tail(entries))

\* PersonaEngine.buildPrompt
buildPrompt(request) ==
  Substitute(IF request.type = "reply" THEN replyPrompt ELSE composerPrompt,
             replacements(request))

\* One entry of the errors array of validateOutput, or the message of a
\* caught exception (id 0).
ErrorEntry(kind, id) == [kind |-> kind, id |-> id]

\* variant.content after the hashtag block and the emoji block of the loop
\* of validateOutput, from limits.text.
ValidateContent(text, request) ==
  With(IF ~request.options.includeHashtags
         THEN trim(collapseWhitespace(stripHashtags(text)))
         ELSE text,
    LAMBDA content :
      IF ~request.options.includeEmojis
        THEN trim(collapseWhitespace(RemoveAll(content, {Pictograph})))
        ELSE content)

\* variant.hashtags after the hashtag block, from limits.text.
ValidateHashtags(text, hashtags, request) ==
  IF ~request.options.includeHashtags THEN <<>>
  ELSE With(matchHashtags(text), LAMBDA extracted :
         IF extracted # <<>> THEN Dedupe(TrimEach(extracted)) ELSE hashtags)

\* ValidateVariant leaving metadata.length and metadata.tokenLength as the
\* generation loop set them.
ValidateVariantStaleMeasures(variant, request, maxTokens, maxLength) ==
  With(variant, LAMBDA v :
    With(applyOutputLimits(v.content, maxTokens, maxLength), LAMBDA limits :
      With(ValidateContent(limits.text, request), LAMBDA content :
        LET originalContent == v.content
            m == v.metadata
            metadata ==
              [length |-> m.length,
               tokenLength |-> m.tokenLength,
               wasTruncated |-> IF limits.wasTruncated THEN TRUE ELSE m.wasTruncated,
               originalLength |->
                 IF limits.wasTruncated
                   THEN Some(Coalesce(m.originalLength, Len(originalContent)))
                   ELSE m.originalLength,
               originalContent |->
                 IF limits.wasTruncated
                   THEN Some(Coalesce(m.originalContent, originalContent))
                   ELSE m.originalContent,
               overLimit |->
                 IF limits.charOverflow > 0
                   THEN Some(Max(Coalesce(m.overLimit, 0), limits.charOverflow))
                   ELSE m.overLimit,
               overTokenLimit |->
                 IF limits.tokenOverflow > 0
                   THEN Some(Max(Coalesce(m.overTokenLimit, 0), limits.tokenOverflow))
                   ELSE m.overTokenLimit]
        IN [variant |-> [id |-> v.id,
                         content |-> content,
                         hashtags |-> ValidateHashtags(limits.text, v.hashtags, request),
                         metadata |-> metadata],
            keep |-> trim(content) # <<>>])))

\* The body of the for loop of validateOutput on one variant: the variant
\* as the loop leaves it, and whether it is kept.
ValidateVariant(variant, request, maxTokens, maxLength) ==
  With(variant, LAMBDA v :
    With(applyOutputLimits(v.content, maxTokens, maxLength), LAMBDA limits :
      With(ValidateContent(limits.text, request), LAMBDA content :
        LET originalContent == v.content
            m == v.metadata
            metadata ==
              [length |-> Len(content),
               tokenLength |-> Some(countTokens(content)),
               wasTruncated |-> IF limits.wasTruncated THEN TRUE ELSE m.wasTruncated,
               originalLength |->
                 IF limits.wasTruncated
                   THEN Some(Coalesce(m.originalLength, Len(originalContent)))
                   ELSE m.originalLength,
               originalContent |->
                 IF limits.wasTruncated
                   THEN Some(Coalesce(m.originalContent, originalContent))
                   ELSE m.originalContent,
               overLimit |->
                 IF limits.charOverflow > 0
                   THEN Some(Max(Coalesce(m.overLimit, 0), limits.charOverflow))
                   ELSE m.overLimit,
               overTokenLimit |->
                 IF limits.tokenOverflow > 0
                   THEN Some(Max(Coalesce(m.overTokenLimit, 0), limits.tokenOverflow))
                   ELSE m.overTokenLimit]
        IN [variant |-> [id |-> v.id,
                         content |-> content,
                         hashtags |-> ValidateHashtags(limits.text, v.hashtags, request),
                         metadata |-> metadata],
            keep |-> trim(content) # <<>>])))

RECURSIVE ValidateLoop(_, _, _)
\* The for loop of validateOutput from the k-th variant on; body[v] is
\* what the loop body makes of the variant v.
ValidateLoop(variants, k, body) ==
  IF k > Len(variants) THEN [filteredVariants |-> <<>>, errors |-> <<>>]
  ELSE With(ValidateLoop(variants, k + 1, body), LAMBDA rest :
         IF body[variants[k]].keep
           THEN [filteredVariants |-> <<body[variants[k]].variant>> \o rest.filteredVariants,
                 errors |-> rest.errors]
           ELSE [filteredVariants |-> rest.filteredVariants,
                 errors |-> <<ErrorEntry("truncated to empty content", variants[k].id)>>
                              \o rest.errors])

validateMaxLength(request) ==
  getPlatformMaxLength(request.platform, request.options.maxLength)

\* validateMaxTokens reading the character limit only.
validateTokensFromLength(request) ==
  CeilDiv(validateMaxLength(request), approxCharsPerToken)

validateMaxTokens(request) ==
  Coalesce(request.options.maxTokens,
           CeilDiv(validateMaxLength(request), approxCharsPerToken))

\* validateOutput reporting success when no variant was rejected.
validateOutputStrict(variants, body, personaId) ==
  With(ValidateLoop(variants, 1, body), LAMBDA loop :
    [success |-> Len(loop.errors) = 0,
     variants |-> loop.filteredVariants,
     error |-> IF Len(loop.errors) > 0 THEN Some(loop.errors) ELSE None,
     metadata |-> [personaUsed |-> personaId, model |-> None]])

\* errors.join('; '): the messages hold no '; ', the joined string is read
\* as the list of its messages.
validateOutput(variants, body, personaId) ==
  With(ValidateLoop(variants, 1, body), LAMBDA loop :
    [success |-> Len(loop.filteredVariants) > 0,
     variants |-> loop.filteredVariants,
     error |-> IF Len(loop.errors) > 0 THEN Some(loop.errors) ELSE None,
     metadata |-> [personaUsed |-> personaId, model |-> None]])

\* ------------------------------------------------------------------------
\* composer-service: generateSync and generateWithDirectOllama
\* ------------------------------------------------------------------------

\* Largest number of variants of one request.
MaxVariants == 2

maxAttempts == 4

\* The texts the LLM endpoint answers with (result.response).
Responses ==
  {
    <<"G","r","e","a","t"," ","t","i","p","s","!"," ","#","g","r","o","w","t","h"," ","#","a","i">>,
    <<"U","n","l","o","c","k"," ","c","o","r","p","o","r","a","t","e"," ","j","a","r","g","o","n"," ","n","o","w">>,
    <<"#","a","#","b","#","c">>,
    <<"#","a","#","b">>,
    <<"\"","\"">>,
    <<"H","o","o","k",":"," ","S","h","i","p"," ","i","t","\n","-","-","-","\n","N","o","t","e","s",":"," ","x">>,
    <<"N","i","c","e"," ",Pictograph," ","d","a","y">>,
    <<"a","b"," ","c","d"," ","e","f"," ","g","h">>,
    <<"B","i","g"," ","n","e","w","s"," ","#","a","i">>
  }

\* What a failed LLM call reports: a non-OK status, or a thrown error.
Failures == {ErrorEntry("Ollama API error: Bad Gateway", 0), ErrorEntry("fetch failed", 0)}

CorporateJargon ==
  <<"c","o","r","p","o","r","a","t","e"," ","j","a","r","g","o","n">>

\* The rows of the persona table: id, owner and donts (the columns the
\* pipeline reads).
Personas ==
  {[id |-> "persona-1", userId |-> "user-1", donts |-> <<CorporateJargon>>],
   [id |-> "default", userId |-> "user-1", donts |-> <<>>]}

\* The calls of generateFromBrainDump of the model: persona id and caller
\* (an absent userId is a demo call), length of the input, platform, limits
\* (an absent limit is left to the platform default), flags (absent reads
\* FALSE), and the number of variants requested where it is not one of
\* 1..MaxVariants.
Scenarios ==
  {[platform |-> "twitter",  maxLength |-> None,     maxTokens |-> None,
    includeHashtags |-> FALSE, includeEmojis |-> FALSE,
    persona |-> "persona-1", userId |-> Some("user-1"), inputLength |-> 12, requested |-> None],
   [platform |-> "instagram", maxLength |-> None,    maxTokens |-> None,
    includeHashtags |-> TRUE,  includeEmojis |-> TRUE,
    persona |-> "ghost", userId |-> Some("user-1"), inputLength |-> 12, requested |-> None],
   [platform |-> "twitter",  maxLength |-> Some(24), maxTokens |-> None,
    includeHashtags |-> TRUE,  includeEmojis |-> FALSE,
    persona |-> "persona-1", userId |-> Some("user-1"), inputLength |-> 12, requested |-> None],
   [platform |-> "twitter",  maxLength |-> Some(24), maxTokens |-> None,
    includeHashtags |-> FALSE, includeEmojis |-> TRUE,
    persona |-> "persona-1", userId |-> Some("user-2"), inputLength |-> 12, requested |-> None],
   [platform |-> "twitter",  maxLength |-> Some(3),  maxTokens |-> Some(80),
    includeHashtags |-> FALSE, includeEmojis |-> FALSE,
    persona |-> "default", userId |-> None, inputLength |-> 2000, requested |-> None],
   [platform |-> "linkedin", maxLength |-> None,     maxTokens |-> Some(3),
    includeHashtags |-> FALSE, includeEmojis |-> FALSE,
    persona |-> "persona-1", userId |-> None, inputLength |-> 12, requested |-> None],
   [platform |-> "linkedin", maxLength |-> None,     maxTokens |-> Some(3),
    includeHashtags |-> TRUE,  includeEmojis |-> TRUE,
    persona |-> "default", userId |-> Some("user-1"), inputLength |-> 12, requested |-> None],
   [platform |-> "linkedin", maxLength |-> Some(12), maxTokens |-> Some(4),
    includeHashtags |-> TRUE,  includeEmojis |-> FALSE,
    persona |-> "default", userId |-> None, inputLength |-> 12, requested |-> None],
   [platform |-> "linkedin", maxLength |-> Some(12), maxTokens |-> Some(1),
    includeHashtags |-> FALSE, includeEmojis |-> TRUE,
    persona |-> "persona-1", userId |-> Some("user-1"), inputLength |-> 12, requested |-> None],
   [platform |-> "linkedin", maxLength |-> None,     maxTokens |-> Some(3),
    includeHashtags |-> FALSE, includeEmojis |-> FALSE,
    persona |-> "ghost", userId |-> Some("user-1"), inputLength |-> 2000, requested |-> None],
   [platform |-> "twitter",  maxLength |-> None,     maxTokens |-> None,
    includeHashtags |-> FALSE, includeEmojis |-> FALSE,
    persona |-> "", userId |-> None, inputLength |-> 12, requested |-> None],
   [platform |-> "linkedin", maxLength |-> None,     maxTokens |-> Some(3),
    includeHashtags |-> FALSE, includeEmojis |-> FALSE,
    persona |-> "persona-1", userId |-> Some("user-1"), inputLength |-> 12,
    requested |-> Some(6)]}

\* The ComposerRequest of a scenario asking for n variants, or for the
\* number the scenario states; of the input, its length.
ComposerRequest(scenario, n) ==
  [inputLength |-> scenario.inputLength,
   personaId |-> scenario.persona,
   platform |-> scenario.platform,
   userId |-> scenario.userId,
   options |-> [variants |-> Coalesce(scenario.requested, n),
                maxLength |-> scenario.maxLength,
                maxTokens |-> scenario.maxTokens,
                includeHashtags |-> scenario.includeHashtags,
                includeEmojis |-> scenario.includeEmojis]]

\* The PersonaEngineConfig of an id and its donts.
PersonaEngineConfig(id, donts) == [id |-> id, donts |-> donts]

\* prisma.persona.findFirst({ where: { id, ...(userId ? { userId } : {}) } })
findFirst(personaId, userId) ==
  LET rows == {p \in Personas : p.id = personaId /\ (userId = None \/ p.userId = userId[1])}
  IN IF rows = {} THEN None ELSE Some(CHOOSE p \in rows : TRUE)

\* resolvePersonaConfig recording the requested id as the persisted one
\* when the lookup misses.
resolveKeepingRequestedId(personaId, userId) ==
  With(findFirst(personaId, userId), LAMBDA persona :
    IF persona = None
      THEN [config |-> PersonaEngineConfig(personaId, <<>>), persistedId |-> Some(personaId)]
      ELSE [config |-> PersonaEngineConfig(persona[1].id, persona[1].donts),
            persistedId |-> Some(persona[1].id)])

resolvePersonaConfig(personaId, userId) ==
  With(findFirst(personaId, userId), LAMBDA persona :
    IF persona = None
      THEN [config |-> PersonaEngineConfig(personaId, <<>>), persistedId |-> None]
      ELSE [config |-> PersonaEngineConfig(persona[1].id, persona[1].donts),
            persistedId |-> Some(persona[1].id)])

\* !request.personaId || request.personaId.trim() === ''
BlankPersonaId(request) == request.personaId \in {"", " "}

\* shouldGenerateSync allowing one variant only.
shouldGenerateSyncSingle(request) ==
  request.userId = None \/ (request.options.variants <= 1 /\ request.inputLength < 2000)

shouldGenerateSync(request) ==
  request.userId = None \/ (request.options.variants <= 5 /\ request.inputLength < 2000)

\* jobService.createComposerJob: the job object it returns; it writes nothing.
createComposerJob(request) ==
  [id |-> "job-1", type |-> request.type, status |-> "QUEUED",
   personaId |-> request.personaId, input |-> request.input]

\* persistGeneratedContent: what it writes (the job record it hands to
\* jobService.logJobResult, then one post per variant) and the id it
\* returns; job is what logJobResult returned.
persistGeneratedContent(request, personaId, generated, job) ==
  IF request.userId = None \/ Len(generated.variants) = 0
    THEN [writes |-> <<>>, jobId |-> None]
    ELSE [writes |->
            <<[table |-> "job", userId |-> request.userId[1], personaId |-> personaId,
               inputPersonaId |-> request.personaId,
               content |-> [k \in 1..Len(generated.variants) |-> generated.variants[k].content]]>>
            \o [k \in 1..Len(generated.variants) |->
                  [table |-> "post", userId |-> request.userId[1], personaId |-> personaId,
                   inputPersonaId |-> None,
                   content |-> <<generated.variants[k].content>>]],
          jobId |-> job]

\* What generateFromBrainDump writes and returns after generateSync
\* returned generated.
Respond(request, personaId, generated, job) ==
  With(IF request.userId # None /\ generated.success /\ Len(generated.variants) > 0
         THEN persistGeneratedContent(request, personaId, generated, job)
         ELSE [writes |-> <<>>, jobId |-> None],
    LAMBDA recorded :
      [writes |-> recorded.writes,
       response |-> [success |-> generated.success,
                     jobId |-> IF request.userId # None
                                 THEN Coalesce(recorded.jobId, "sync")
                                 ELSE "demo-sync",
                     variants |-> Some(generated.variants),
                     error |-> generated.error]])

platformCharDefaults(platform) ==
  CASE platform = "twitter" -> 280
    [] platform = "linkedin" -> 3000
    [] platform = "instagram" -> 2200

platformTokenDefaults(platform) ==
  CASE platform = "twitter" -> 80
    [] platform = "linkedin" -> 750
    [] platform = "instagram" -> 550

\* generateSync leaving maxTokens to generateWithDirectOllama and to
\* validateOutput.
contentRequestWithoutTokens(request) ==
  [platform |-> request.platform,
   options |-> [variants |-> request.options.variants,
                maxLength |-> Some(Coalesce(request.options.maxLength,
                                            platformCharDefaults(request.platform))),
                maxTokens |-> request.options.maxTokens,
                includeHashtags |-> request.options.includeHashtags,
                includeEmojis |-> request.options.includeEmojis]]

\* The ContentRequest generateSync builds from a ComposerRequest.
contentRequest(request) ==
  [platform |-> request.platform,
   options |-> [variants |-> request.options.variants,
                maxLength |-> Some(Coalesce(request.options.maxLength,
                                            platformCharDefaults(request.platform))),
                maxTokens |-> Some(Coalesce(request.options.maxTokens,
                                            platformTokenDefaults(request.platform))),
                includeHashtags |-> request.options.includeHashtags,
                includeEmojis |-> request.options.includeEmojis]]

tokenLimit(request) ==
  Coalesce(request.options.maxTokens,
           CeilDiv(Coalesce(request.options.maxLength, 280), approxCharsPerToken))

charLimit(request) ==
  Coalesce(request.options.maxLength, tokenLimit(request) * approxCharsPerToken)

hookStyle(index) ==
  IF index = 0 THEN "Ask a question"
  ELSE IF index = 1 THEN "Share an insight"
  ELSE "Tell a story"

\* The prompt of an attempt: the base prompt of the variant (the request and
\* the style hint), and the feedback paragraphs that follow it, none in the
\* base prompt itself.
basePrompt(index) == [style |-> hookStyle(index), feedback |-> <<>>]

\* const candidate = this.parseGeneratedContent(...), with its measures.
Candidate(raw, variantId, request) ==
  With(parseGeneratedContent(trim(raw), variantId, request), LAMBDA parsed :
    [parsed EXCEPT !.metadata.length = Len(parsed.content),
                   !.metadata.tokenLength = Some(countTokens(parsed.content))])

\* The test of acceptance reading the character limit only.
WithinCharLimit(candidate, request) ==
  candidate.metadata.length <= charLimit(request)

WithinLimits(candidate, request) ==
  /\ candidate.metadata.length <= charLimit(request)
  /\ candidate.metadata.tokenLength[1] <= tokenLimit(request)

\* The fallback clamp recording the clamped text as the original.
FallbackForgetsOriginal(last, maxTokens, maxLength) ==
  With(applyOutputLimits(last.content, maxTokens, maxLength), LAMBDA fallback :
    [last EXCEPT
       !.content = fallback.text,
       !.metadata = [last.metadata EXCEPT
                       !.length = Len(fallback.text),
                       !.tokenLength = Some(fallback.tokens),
                       !.wasTruncated = TRUE,
                       !.originalLength = Some(Len(fallback.text)),
                       !.originalContent = Some(fallback.text)]])

\* The fallback clamp measuring the original after the content is replaced.
FallbackMeasuresClamped(last, maxTokens, maxLength) ==
  With(applyOutputLimits(last.content, maxTokens, maxLength), LAMBDA fallback :
    [last EXCEPT
       !.content = fallback.text,
       !.metadata = [last.metadata EXCEPT
                       !.length = Len(fallback.text),
                       !.tokenLength = Some(fallback.tokens),
                       !.wasTruncated = TRUE,
                       !.originalLength = Some(Len(fallback.text)),
                       !.originalContent = Some(last.content)]])

\* The fallback clamp of the last candidate.
FallbackVariant(last, maxTokens, maxLength) ==
  With(applyOutputLimits(last.content, maxTokens, maxLength), LAMBDA fallback :
    LET originalFallbackContent == last.content
        m == last.metadata
    IN [last EXCEPT
          !.content = fallback.text,
          !.metadata = [length |-> Len(fallback.text),
                        tokenLength |-> Some(fallback.tokens),
                        wasTruncated |-> TRUE,
                        originalLength |->
                          Some(Coalesce(m.originalLength, Len(originalFallbackContent))),
                        originalContent |->
                          Some(Coalesce(m.originalContent, originalFallbackContent)),
                        overLimit |->
                          IF fallback.charOverflow > 0
                            THEN Some(Max(Coalesce(m.overLimit, 0), fallback.charOverflow))
                            ELSE m.overLimit,
                        overTokenLimit |->
                          IF fallback.tokenOverflow > 0
                            THEN Some(Max(Coalesce(m.overTokenLimit, 0), fallback.tokenOverflow))
                            ELSE m.overTokenLimit]])

\* "Ensure metadata reflects final content limits", before the push.
FinalVariant(variant) ==
  With(variant, LAMBDA v :
    IF ~v.metadata.wasTruncated
      THEN [v EXCEPT !.metadata = FreshMetadata(Len(v.content)),
                     !.metadata.tokenLength = Some(countTokens(v.content))]
      ELSE [v EXCEPT !.metadata.length = Len(v.content),
                     !.metadata.tokenLength = Some(countTokens(v.content))])

\* What the loop pushes for a variant whose last attempt gave candidate:
\* the candidate when it is within the limits, else its fallback clamp.
Pushed(candidate, request) ==
  FinalVariant(IF WithinLimits(candidate, request)
                 THEN candidate
                 ELSE FallbackVariant(candidate, tokenLimit(request), charLimit(request)))

\* The pure functions of the pipeline on one answer of the LLM: the
\* candidate parsed from it, the variant pushed when it is the last answer
\* of its variant, and what the loop of validateOutput makes of that variant.
Outcome(raw, variantId, request) ==
  With(Candidate(raw, variantId, request), LAMBDA candidate :
    With(Pushed(candidate, request), LAMBDA pushed :
      [candidate |-> candidate,
       pushed    |-> pushed,
       validate  |-> ValidateVariant(pushed, request, validateMaxTokens(request),
                                     validateMaxLength(request))]))

\* Outcome tabulated for one ContentRequest, by variant id and answer.
Functions(request) ==
  [key \in (1..request.options.variants) \X Responses |->
     Outcome(key[2], key[1], request)]

\* Functions tabulated for the content request of every request served.
Tables ==
  CHOOSE t \in {[r \in {contentRequest(ComposerRequest(scenario, n)) :
                          scenario \in Scenarios, n \in 1..MaxVariants} |-> Functions(r)]} :
    t = t

VARIABLES
  req,         \* the ComposerRequest being served
  persona,     \* the persona configuration resolved for it
  persistedId, \* the id of the persona row found for it, if any
  pc,          \* "idle", "await" (one LLM call in flight), "done", "queued", "threw"
  i,           \* index of the variant being generated
  attempt,     \* attempts made for that variant, the one in flight included
  prompt,      \* the prompt of the call in flight
  inFlight,    \* the LLM calls sent and not yet answered: variant index and attempt
  variants,    \* the variants pushed by the loop, as they were pushed
  lastAnswer,  \* per pushed variant: the answer of the LLM to its last attempt
  clamped,     \* ids of the pushed variants that went through the fallback clamp
  discarded,   \* variants already pushed when an LLM call failed
  thrown,      \* the error the catch block caught, if any
  result,      \* the GenerationResult generateSync returned
  persisted,   \* the records generateFromBrainDump wrote
  response,    \* what generateFromBrainDump returned, or the error it threw
  calc         \* a call of one of the pure functions on its own, and what it returned

\* Functions(contentRequest(req))
fn == Tables[contentRequest(req)]

vars ==
  <<req, persona, persistedId, pc, i, attempt, prompt, inFlight, variants, lastAnswer,
    clamped, discarded, thrown, result, persisted, response, calc>>

\* The state of a request that generateFromBrainDump has not begun to serve.
Idle ==
  /\ persona = None
  /\ persistedId = None
  /\ pc = "idle"
  /\ i = 0
  /\ attempt = 0
  /\ prompt = None
  /\ inFlight = {}
  /\ variants = <<>>
  /\ lastAnswer = <<>>
  /\ clamped = {}
  /\ discarded = 0
  /\ thrown = None
  /\ result = None
  /\ persisted = <<>>
  /\ response = None

Init ==
  /\ \E scenario \in Scenarios, n \in 1..MaxVariants : req = ComposerRequest(scenario, n)
  /\ Idle
  /\ calc = None

\* generateFromBrainDump throws before the persona is looked up.
RejectRequest ==
  /\ pc = "idle"
  /\ BlankPersonaId(req)
  /\ pc' = "threw"
  /\ response' = Some([threw |-> "Persona ID is required"])
  /\ UNCHANGED <<req, persona, persistedId, i, attempt, prompt, inFlight, variants,
                 lastAnswer, clamped, discarded, thrown, result, persisted, calc>>

\* generateFromBrainDump resolves the persona and queues a job instead of
\* generating.
Enqueue ==
  /\ pc = "idle"
  /\ ~BlankPersonaId(req)
  /\ ~shouldGenerateSync(req)
  /\ persona' = resolvePersonaConfig(req.personaId, req.userId).config
  /\ persistedId' = resolvePersonaConfig(req.personaId, req.userId).persistedId
  /\ response' =
       Some([success |-> TRUE,
             jobId |-> createComposerJob([userId |-> req.userId[1], type |-> "BRAIN_DUMP",
                                          personaId |-> persona'.id, input |-> req]).id,
             variants |-> None,
             error |-> None])
  /\ pc' = "queued"
  /\ UNCHANGED <<req, i, attempt, prompt, inFlight, variants, lastAnswer, clamped,
                 discarded, thrown, result, persisted, calc>>

\* generateFromBrainDump resolves the persona and calls generateSync, which
\* calls generateWithDirectOllama, which sends the first prompt.
Start ==
  /\ pc = "idle"
  /\ ~BlankPersonaId(req)
  /\ shouldGenerateSync(req)
  /\ persona' = resolvePersonaConfig(req.personaId, req.userId).config
  /\ persistedId' = resolvePersonaConfig(req.personaId, req.userId).persistedId
  /\ pc' = "await"
  /\ i' = 0
  /\ attempt' = 1
  /\ prompt' = Some(basePrompt(0))
  /\ inFlight' = {[variant |-> 0, attempt |-> 1]}
  /\ UNCHANGED <<req, variants, lastAnswer, clamped, discarded, thrown, result, persisted,
                 response, calc>>

\* What the loop body of validateOutput makes of a pushed variant.
ValidateBody == [v \in {fn[key].pushed : key \in DOMAIN fn} |->
                   fn[CHOOSE key \in DOMAIN fn : fn[key].pushed = v].validate]

\* The result generateWithDirectOllama returns once the loop is over.
Returned(vs) ==
  [validateOutput(vs, ValidateBody, persona.id)
     EXCEPT !.metadata.model = Some("gemma3:12b")]

\* generateSync has returned generated: generateFromBrainDump persists it
\* and returns. What jobService.logJobResult returns is a job or nothing.
Finish(generated) ==
  \E returned \in {generated} :
    /\ result' = Some(returned)
    /\ \E job \in {None, Some("job-1")} :
         \E responded \in {Respond(req, persistedId, returned, job)} :
           /\ persisted' = responded.writes
           /\ response' = Some(responded.response)

\* variants.push(finalVariant) without waiting for the variant: the prompt
\* of the next variant is already out.
PushWithoutWaiting(finalVariant, raw) ==
  /\ variants' = Append(variants, finalVariant)
  /\ lastAnswer' = Append(lastAnswer, raw)
  /\ IF i + 1 < contentRequest(req).options.variants
       THEN /\ i' = i + 1
            /\ attempt' = 1
            /\ prompt' = Some(basePrompt(i + 1))
            /\ inFlight' = inFlight \cup {[variant |-> i + 1, attempt |-> 1]}
            /\ pc' = "await"
            /\ UNCHANGED <<result, persisted, response>>
       ELSE /\ pc' = "done"
            /\ prompt' = None
            /\ inFlight' = {}
            /\ Finish(Returned(Append(variants, finalVariant)))
            /\ UNCHANGED <<i, attempt>>

\* variants.push(finalVariant): the next variant's first prompt is sent, or
\* the loop is over and the validated result is returned.
Push(finalVariant, raw) ==
  /\ variants' = Append(variants, finalVariant)
  /\ lastAnswer' = Append(lastAnswer, raw)
  /\ IF i + 1 < contentRequest(req).options.variants
       THEN /\ i' = i + 1
            /\ attempt' = 1
            /\ prompt' = Some(basePrompt(i + 1))
            /\ inFlight' = {[variant |-> i + 1, attempt |-> 1]}
            /\ pc' = "await"
            /\ UNCHANGED <<result, persisted, response>>
       ELSE /\ pc' = "done"
            /\ prompt' = None
            /\ inFlight' = {}
            /\ Finish(Returned(Append(variants, finalVariant)))
            /\ UNCHANGED <<i, attempt>>

\* The LLM answers and the sanitized text is within both limits.
AcceptAttempt ==
  /\ pc = "await"
  /\ [variant |-> i, attempt |-> attempt] \in inFlight
  /\ \E raw \in Responses :
       /\ WithinLimits(fn[<<i + 1, raw>>].candidate, contentRequest(req))
       /\ Push(fn[<<i + 1, raw>>].pushed, raw)
  /\ UNCHANGED <<req, persona, persistedId, clamped, discarded, thrown, calc>>

\* The feedback paragraph appended to the prompt of the attempt before.
RetryPromptAccumulating(index, candidate) ==
  [prompt[1] EXCEPT
     !.feedback = Append(@, [chars |-> candidate.metadata.length,
                             tokens |-> candidate.metadata.tokenLength[1]])]

\* The feedback prompt of a retry after the over-limit candidate: the base
\* prompt and one paragraph with the measures of the candidate.
RetryPrompt(index, candidate) ==
  [basePrompt(index) EXCEPT
     !.feedback = Append(@, [chars |-> candidate.metadata.length,
                             tokens |-> candidate.metadata.tokenLength[1]])]

\* RetryAttempt that does not count the attempt.
RetryWithoutCounting ==
  /\ pc = "await"
  /\ [variant |-> i, attempt |-> attempt] \in inFlight
  /\ attempt < maxAttempts
  /\ \E raw \in Responses :
       /\ ~WithinLimits(fn[<<i + 1, raw>>].candidate, contentRequest(req))
       /\ prompt' = Some(RetryPrompt(i, fn[<<i + 1, raw>>].candidate))
  /\ attempt' = Max(attempt, 2)
  /\ inFlight' = {[variant |-> i, attempt |-> attempt']}
  /\ UNCHANGED <<req, persona, persistedId, pc, i, variants, lastAnswer, clamped,
                 discarded, thrown, result, persisted, response, calc>>

\* RetryAttempt whatever the number of attempts made.
RetryWithoutBound ==
  /\ pc = "await"
  /\ [variant |-> i, attempt |-> attempt] \in inFlight
  /\ \E raw \in Responses :
       /\ ~WithinLimits(fn[<<i + 1, raw>>].candidate, contentRequest(req))
       /\ prompt' = Some(RetryPrompt(i, fn[<<i + 1, raw>>].candidate))
  /\ attempt' = attempt + 1
  /\ inFlight' = {[variant |-> i, attempt |-> attempt + 1]}
  /\ UNCHANGED <<req, persona, persistedId, pc, i, variants, lastAnswer, clamped,
                 discarded, thrown, result, persisted, response, calc>>

\* The LLM answers over a limit and attempts remain: the feedback prompt is sent.
RetryAttempt ==
  /\ pc = "await"
  /\ [variant |-> i, attempt |-> attempt] \in inFlight
  /\ attempt < maxAttempts
  /\ \E raw \in Responses :
       /\ ~WithinLimits(fn[<<i + 1, raw>>].candidate, contentRequest(req))
       /\ prompt' = Some(RetryPrompt(i, fn[<<i + 1, raw>>].candidate))
  /\ attempt' = attempt + 1
  /\ inFlight' = {[variant |-> i, attempt |-> attempt + 1]}
  /\ UNCHANGED <<req, persona, persistedId, pc, i, variants, lastAnswer, clamped,
                 discarded, thrown, result, persisted, response, calc>>

\* The LLM answers over a limit on the last attempt: the candidate is clamped.
FallbackClamp ==
  /\ pc = "await"
  /\ [variant |-> i, attempt |-> attempt] \in inFlight
  /\ attempt >= maxAttempts
  /\ \E raw \in Responses :
       /\ ~WithinLimits(fn[<<i + 1, raw>>].candidate, contentRequest(req))
       /\ Push(fn[<<i + 1, raw>>].pushed, raw)
  /\ clamped' = clamped \cup {i + 1}
  /\ UNCHANGED <<req, persona, persistedId, discarded, thrown, calc>>

\* The catch block returning the variants pushed so far.
PartialFailureResult(failure, personaId) ==
  [success |-> Len(variants) > 0,
   variants |-> variants,
   error |-> Some(<<failure>>),
   metadata |-> [personaUsed |-> personaId, model |-> None]]

\* The result of the catch block of generateWithDirectOllama.
FailureResult(failure, personaId) ==
  [success |-> FALSE,
   variants |-> <<>>,
   error |-> Some(<<failure>>),
   metadata |-> [personaUsed |-> personaId, model |-> None]]

\* The LLM call fails (non-OK response, or fetch throws): the catch block
\* returns, and the locals of the loop are gone.
LLMFailure ==
  /\ pc = "await"
  /\ [variant |-> i, attempt |-> attempt] \in inFlight
  /\ \E failure \in Failures :
       /\ thrown' = Some(failure)
       /\ Finish(FailureResult(failure, persona.id))
  /\ pc' = "done"
  /\ prompt' = None
  /\ inFlight' = {}
  /\ i' = 0
  /\ attempt' = 0
  /\ variants' = <<>>
  /\ lastAnswer' = <<>>
  /\ clamped' = {}
  /\ discarded' = Len(variants)
  /\ UNCHANGED <<req, persona, persistedId, calc>>

Next ==
  \/ RejectRequest
  \/ Enqueue
  \/ Start
  \/ AcceptAttempt
  \/ RetryAttempt
  \/ FallbackClamp
  \/ LLMFailure

Spec == Init /\ [][Next]_vars

\* The LLM call in flight is answered, or fails.
CallReturns ==
  \/ LLMFailure
  \/ RetryAttempt
  \/ AcceptAttempt
  \/ FallbackClamp

\* Spec where every LLM call eventually returns or fails: the await of
\* fetch resumes.
FairSpec == Spec /\ WF_vars(CallReturns)

\* ------------------------------------------------------------------------
\* token-utils on their own: clampToCharLimit, truncateToTokenLimit and
\* applyOutputLimits called on any text with any limits
\* ------------------------------------------------------------------------

\* Longest text of a call.
MaxTextLen == 6

\* Largest character limit of a call (the smallest is 0).
MaxCharLimit == 6

\* Largest token limit of a call (the smallest is 0).
MaxTokenLimit == 3

\* The characters of the texts of a call: a letter, a space, a punctuation
\* mark.
TextChars == {"a", " ", "."}

\* The texts of length n over TextChars.
TextsOfLen(n) == [1..n -> TextChars]

Texts == UNION {TextsOfLen(n) : n \in 0..MaxTextLen}

\* A call with its arguments, before it returns.
Call(text, maxTokens, maxLength) ==
  [text |-> text, maxTokens |-> maxTokens, maxLength |-> maxLength,
   op |-> "none", first |-> None, second |-> None]

LimitsInit ==
  /\ req = ComposerRequest(CHOOSE scenario \in Scenarios : scenario.persona = "", 1)
  /\ Idle
  /\ \E text \in Texts, maxTokens \in 0..MaxTokenLimit, maxLength \in 0..MaxCharLimit :
       calc = Call(SubSeq(text, 1, Len(text)), maxTokens, maxLength)

\* clampToCharLimit(text, maxLength) returns.
ClampText ==
  /\ calc.op = "none"
  /\ calc' = [calc EXCEPT !.op = "clamp",
                          !.first = Some(clampToCharLimit(calc.text, calc.maxLength))]
  /\ UNCHANGED <<req, persona, persistedId, pc, i, attempt, prompt, inFlight,
                 variants, lastAnswer, clamped, discarded, thrown, result, persisted, response>>

\* applyOutputLimits(text, { maxTokens, maxLength }) returns.
EnforceLimits ==
  /\ calc.op = "none"
  /\ calc' = [calc EXCEPT !.op = "limits",
                          !.first = Some(applyOutputLimits(calc.text, calc.maxTokens,
                                                           calc.maxLength))]
  /\ UNCHANGED <<req, persona, persistedId, pc, i, attempt, prompt, inFlight,
                 variants, lastAnswer, clamped, discarded, thrown, result, persisted, response>>

\* truncateToTokenLimit(text, maxTokens) returns.
TruncateText ==
  /\ calc.op = "none"
  /\ calc' = [calc EXCEPT !.op = "truncate",
                          !.first = Some(truncateToTokenLimit(calc.text, calc.maxTokens))]
  /\ UNCHANGED <<req, persona, persistedId, pc, i, attempt, prompt, inFlight,
                 variants, lastAnswer, clamped, discarded, thrown, result, persisted, response>>

\* The same function is called on what it returned, with the same limits.
Reapply ==
  /\ calc.op \in {"clamp", "limits"}
  /\ calc.second = None
  /\ calc' = [calc EXCEPT
                !.second =
                  IF calc.op = "clamp"
                    THEN Some(clampToCharLimit(calc.first[1], calc.maxLength))
                    ELSE Some(applyOutputLimits(calc.first[1].text, calc.maxTokens,
                                                calc.maxLength))]
  /\ UNCHANGED <<req, persona, persistedId, pc, i, attempt, prompt, inFlight,
                 variants, lastAnswer, clamped, discarded, thrown, result, persisted, response>>

LimitsNext ==
  \/ ClampText
  \/ TruncateText
  \/ EnforceLimits
  \/ Reapply

LimitsSpec == LimitsInit /\ [][LimitsNext]_vars

\* ------------------------------------------------------------------------
\* The prompts on their own: buildPrompt and the style hints of the
\* generation loop, for any content request
\* ------------------------------------------------------------------------

\* ContentRequestSchema: variants is at most 5.
variantsMax == 5

\* The input texts of the requests, as lists of pieces: plain text, and
\* texts that hold a placeholder token of the templates.
Inputs ==
  {<<"ship small, ship often">>,
   <<"why ", "{platform}", " rewards threads">>,
   <<"stay under ", "{maxLength}", " and ", "{maxTokens}">>,
   <<"pick ", "{variants}", " of these">>}

\* The content requests: type, input, platform and options.
ContentRequests ==
  [type : {"brain_dump", "compose", "reply"},
   input : Inputs,
   platform : {"twitter", "linkedin", "instagram"},
   options : [variants : 1..variantsMax,
              maxLength : {None, Some(120)},
              maxTokens : {None, Some(30)},
              includeHashtags : BOOLEAN,
              includeEmojis : BOOLEAN]]

PromptInit ==
  /\ req = ComposerRequest(CHOOSE scenario \in Scenarios : scenario.persona = "", 1)
  /\ Idle
  /\ \E request \in ContentRequests :
       calc = [request |-> request, op |-> "none", first |-> None]

\* personaEngine.buildPrompt(request) returns.
BuildPrompt ==
  /\ calc.op = "none"
  /\ calc' = [calc EXCEPT !.op = "prompt", !.first = Some(buildPrompt(calc.request))]
  /\ UNCHANGED <<req, persona, persistedId, pc, i, attempt, prompt, inFlight,
                 variants, lastAnswer, clamped, discarded, thrown, result, persisted, response>>

\* The for loop of generateWithDirectOllama computes the style hint of each
\* of the variants of the request.
StyleHints ==
  /\ calc.op = "none"
  /\ calc' = [calc EXCEPT
                !.op = "styles",
                !.first = Some([k \in 1..calc.request.options.variants |-> hookStyle(k - 1)])]
  /\ UNCHANGED <<req, persona, persistedId, pc, i, attempt, prompt, inFlight,
                 variants, lastAnswer, clamped, discarded, thrown, result, persisted, response>>

PromptNext ==
  \/ BuildPrompt
  \/ StyleHints

PromptSpec == PromptInit /\ [][PromptNext]_vars

\* ------------------------------------------------------------------------
\* Properties
\* ------------------------------------------------------------------------

\* generateWithDirectOllama has returned.
Done == pc = "done" /\ result # None

\* It returned from the catch block.
Failed == Done /\ thrown # None

\* It returned the result of validateOutput.
Completed == Done /\ thrown = None

\* The sanitized text of the last attempt of the pushed variant id.
LastText(id) == fn[<<id, lastAnswer[id]>>].candidate.content

\* The variants of the returned result.
ReturnedVariants == result[1].variants

\* The limits of the ContentRequest being served.
maxLengthOf == contentRequest(req).options.maxLength[1]

maxTokensOf == contentRequest(req).options.maxTokens[1]

\* C1. Budget invariant: every variant of a returned result is within the
\* character limit and within the token limit of the request.
BudgetInvariant ==
  Done =>
    \A k \in 1..Len(ReturnedVariants) :
      /\ Len(ReturnedVariants[k].content) <= maxLengthOf
      /\ countTokens(ReturnedVariants[k].content) <= maxTokensOf

\* A returned variant that went through the fallback clamp, its last attempt
\* longer than the character limit, fills the limit exactly.
BudgetWitness ==
  /\ Completed
  /\ \E k \in 1..Len(ReturnedVariants) :
       /\ ReturnedVariants[k].id \in clamped
       /\ Len(LastText(ReturnedVariants[k].id)) > maxLengthOf
       /\ Len(ReturnedVariants[k].content) = maxLengthOf

\* C2. Truncation marking: a returned variant is marked wasTruncated exactly
\* when its originalContent is set and differs from its content.
TruncationMarking ==
  Done =>
    \A k \in 1..Len(ReturnedVariants) :
      ReturnedVariants[k].metadata.wasTruncated
        <=> /\ ReturnedVariants[k].metadata.originalContent # None
            /\ ReturnedVariants[k].metadata.originalContent[1] # ReturnedVariants[k].content

\* A result with a marked variant, and a result with an unmarked variant
\* whose content validateOutput changed after the attempt loop.
TruncationMarkingWitness ==
  /\ Completed
  /\ \E k \in 1..Len(ReturnedVariants) :
       /\ ReturnedVariants[k].metadata.wasTruncated
       /\ ReturnedVariants[k].metadata.originalContent = Some(LastText(ReturnedVariants[k].id))
       /\ ReturnedVariants[k].content # LastText(ReturnedVariants[k].id)

\* The returned variant k stems from the fallback clamp of text: it is
\* marked truncated and keeps text and its length as the original.
KeepsOriginal(k, text) ==
  /\ ReturnedVariants[k].metadata.wasTruncated
  /\ ReturnedVariants[k].metadata.originalContent = Some(text)
  /\ ReturnedVariants[k].metadata.originalLength = Some(Len(text))

\* C3, as stated. A returned variant whose four attempts all exceeded a limit
\* is marked truncated, keeps the sanitized text of the fourth attempt and
\* its length as the original, and its content is applyOutputLimits of that
\* text.
FallbackFromLastAttempt ==
  Done =>
    \A k \in 1..Len(ReturnedVariants) :
      ReturnedVariants[k].id \in clamped =>
        /\ KeepsOriginal(k, LastText(ReturnedVariants[k].id))
        /\ ReturnedVariants[k].content =
             applyOutputLimits(LastText(ReturnedVariants[k].id), maxTokensOf, maxLengthOf).text

\* C3, amended. A returned variant whose four attempts all exceeded a limit
\* is marked truncated, keeps the sanitized text of the fourth attempt and
\* its length as the original, and its content is what the hashtag and emoji
\* blocks of validateOutput leave of applyOutputLimits of that text.
FallbackFromLastAttemptValidated ==
  Done =>
    \A k \in 1..Len(ReturnedVariants) :
      ReturnedVariants[k].id \in clamped =>
        /\ KeepsOriginal(k, LastText(ReturnedVariants[k].id))
        /\ ReturnedVariants[k].content =
             ValidateContent(
               applyOutputLimits(LastText(ReturnedVariants[k].id), maxTokensOf, maxLengthOf).text,
               contentRequest(req))

\* A clamped variant is returned whose content validateOutput changed after
\* the clamp.
FallbackValidatedWitness ==
  /\ Completed
  /\ \E k \in 1..Len(ReturnedVariants) :
       /\ ReturnedVariants[k].id \in clamped
       /\ KeepsOriginal(k, LastText(ReturnedVariants[k].id))
       /\ ReturnedVariants[k].content #
            applyOutputLimits(LastText(ReturnedVariants[k].id), maxTokensOf, maxLengthOf).text

\* The errors of the returned result, one entry per message.
ReturnedErrors == IF result[1].error = None THEN <<>> ELSE result[1].error[1]

\* The ids of the returned variants, in the order of the result.
ReturnedIds == [k \in 1..Len(ReturnedVariants) |-> ReturnedVariants[k].id]

\* The pushed variant id is in the returned result.
IsReturned(id) == \E k \in 1..Len(ReturnedVariants) : ReturnedVariants[k].id = id

\* An error of the returned result names the variant id.
HasErrorFor(id) == \E e \in 1..Len(ReturnedErrors) : ReturnedErrors[e].id = id

\* phrase.split(' '), as a set, the empty word left out.
Words(phrase) ==
  {SubSeq(phrase, a, RunEnd(phrase, a, Alphabet \ {" "})) :
     a \in {q \in 1..Len(phrase) : phrase[q] # " " /\ (q = 1 \/ phrase[q - 1] = " ")}}

\* Every word of some phrase of donts, lower-cased, occurs in the lower-cased content.
ViolatesDonts(content, donts) ==
  \E d \in 1..Len(donts) :
    \A word \in Words(toLowerCase(donts[d])) : includes(toLowerCase(content), word)

\* C4. Denylist rejection: a pushed variant whose content holds every word
\* of a phrase of the persona's donts is not in the returned variants, and
\* an error of the result records it.
DenylistRejection ==
  Completed =>
    \A j \in 1..Len(variants) :
      ViolatesDonts(variants[j].content, persona.donts) =>
        ~IsReturned(variants[j].id) /\ HasErrorFor(variants[j].id)

\* The pushed variants validateOutput's loop leaves empty.
EmptiedVariants == {j \in 1..Len(variants) : ~ValidateBody[variants[j]].keep}

\* The pushed variants that violate the persona's donts.
ViolatingVariants ==
  {j \in 1..Len(variants) : ViolatesDonts(variants[j].content, persona.donts)}

\* C5. Rejections are absorbed: when the loop ends without an LLM failure
\* and k of the n pushed variants are rejected (denylist violation or empty
\* content), the result holds the n - k others in generation order and
\* exactly k error messages, and success is true when k < n.
RejectionsAbsorbed ==
  Completed =>
    LET rejected == EmptiedVariants \cup ViolatingVariants IN
    /\ Len(variants) = contentRequest(req).options.variants
    /\ Len(ReturnedVariants) = Len(variants) - Cardinality(rejected)
    /\ \A k \in 1..Len(ReturnedVariants) : ReturnedIds[k] \notin rejected
    /\ \A k \in 1..(Len(ReturnedVariants) - 1) : ReturnedIds[k] < ReturnedIds[k + 1]
    /\ Len(ReturnedErrors) = Cardinality(rejected)
    /\ (Cardinality(rejected) < Len(variants) => result[1].success)

\* C6. In every returned result success is true exactly when variants is
\* not empty.
SuccessIffVariants ==
  Done => (result[1].success <=> ReturnedVariants # <<>>)

\* Two variants were pushed and validateOutput rejected both: no variant,
\* no success.
SuccessIffVariantsWitness ==
  /\ Completed
  /\ Len(variants) = 2
  /\ ReturnedVariants = <<>>
  /\ ~result[1].success

\* C7. An LLM failure ends the batch: the result is success = false,
\* variants = [] and the message of the failure, no call is in flight, and
\* no step of the pipeline follows.
LLMFailureAborts ==
  thrown # None =>
    /\ pc = "done"
    /\ prompt = None
    /\ result # None
    /\ result[1].success = FALSE
    /\ result[1].variants = <<>>
    /\ result[1].error = Some(<<thrown[1]>>)
    /\ ~ENABLED Next

\* An LLM call failed when a variant of the request had already been pushed.
LLMFailureAbortsWitness ==
  /\ Failed
  /\ discarded >= 1
  /\ result[1].variants = <<>>
  /\ ~result[1].success

\* The sanitizer strips the last answer of the pushed variant j to nothing.
StrippedToNothing(j) ==
  Sanitized(trim(lastAnswer[j]), contentRequest(req)).text = <<>>

\* C8. Empty drop: a pushed variant whose text is empty after sanitization,
\* or after the limits and the stripping of validateOutput, is not in the
\* returned variants and an error says it was truncated to empty content;
\* every variant of the request is generated and the others are returned.
EmptyVariantDropped ==
  Completed =>
    /\ Len(variants) = contentRequest(req).options.variants
    /\ \A j \in 1..Len(variants) :
         IF StrippedToNothing(j) \/ j \in EmptiedVariants
           THEN /\ ~IsReturned(variants[j].id)
                /\ \E e \in 1..Len(ReturnedErrors) :
                     ReturnedErrors[e] =
                       ErrorEntry("truncated to empty content", variants[j].id)
           ELSE IsReturned(variants[j].id)

\* s holds a # followed by a character that is no whitespace.
HasHashToken(s) ==
  \E q \in 1..(Len(s) - 1) : s[q] = "#" /\ s[q + 1] \notin Whitespace

\* C9. Hashtags excluded: when includeHashtags is false, the content of a
\* returned variant holds no # followed by a non-whitespace character, and
\* its hashtags list is empty.
NoHashtagsWhenExcluded ==
  (Done /\ ~contentRequest(req).options.includeHashtags) =>
    \A k \in 1..Len(ReturnedVariants) :
      /\ ~HasHashToken(ReturnedVariants[k].content)
      /\ ReturnedVariants[k].hashtags = <<>>

\* C10. Hashtags included: when includeHashtags is true, every entry of the
\* hashtags list of a returned variant occurs verbatim in its content.
HashtagsAppearInContent ==
  (Done /\ contentRequest(req).options.includeHashtags) =>
    \A k \in 1..Len(ReturnedVariants) :
      \A t \in 1..Len(ReturnedVariants[k].hashtags) :
        includes(ReturnedVariants[k].content, ReturnedVariants[k].hashtags[t])


\* The persona lookup of the request finds no row.
LookupMisses == ~BlankPersonaId(req) /\ findFirst(req.personaId, req.userId) = None

\* The messages an error of a GenerationResult is made of.
KnownErrors == {"truncated to empty content"} \cup {f.kind : f \in Failures}

\* C11. Persona not found: when the lookup finds no persona for the
\* requested id (and owner), generateFromBrainDump does not throw; the
\* persona it goes on with has the requested id and empty donts; the loop
\* runs (a call is awaited, or generateSync returned; when no LLM call
\* failed, every requested variant was generated); the errors of the result
\* are those of the LLM and of validateOutput only; and every record written
\* has no persona id.
PersonaNotFoundRecovered ==
  (LookupMisses /\ pc # "idle") =>
    /\ persona = PersonaEngineConfig(req.personaId, <<>>)
    /\ persistedId = None
    /\ pc \in {"await", "done", "queued"}
    /\ (pc = "queued") <=> ~shouldGenerateSync(req)
    /\ (response # None => "threw" \notin DOMAIN response[1])
    /\ (pc = "await" => attempt \in 1..maxAttempts /\ inFlight # {})
    /\ (Completed => Len(variants) = req.options.variants)
    /\ (Done => /\ result[1].metadata.personaUsed = req.personaId
                /\ \A e \in 1..Len(ReturnedErrors) : ReturnedErrors[e].kind \in KnownErrors
                /\ response[1].success = result[1].success
                /\ response[1].variants = Some(ReturnedVariants))
    /\ \A w \in 1..Len(persisted) : persisted[w].personaId = None

\* A caller with a user id asked for a persona that is not theirs or does
\* not exist, variants were returned and written without a persona id.
PersonaNotFoundWitness ==
  /\ Completed
  /\ LookupMisses
  /\ req.userId # None
  /\ result[1].success
  /\ Len(persisted) = 1 + Len(ReturnedVariants)
  /\ \A w \in 1..Len(persisted) : persisted[w].personaId = None

\* The platform defaults as the specification gives them: characters, tokens.
StatedDefaults ==
  [twitter |-> <<280, 80>>, linkedin |-> <<3000, 750>>, instagram |-> <<2200, 550>>]

\* C12. One pair of limits per request: the limits the attempt loop accepts
\* by and the limits validateOutput enforces are the same, they are the
\* values of the request where it gives them and the platform defaults
\* where it does not, and every variant the loop pushed is within the
\* limits validateOutput enforces.
SameLimitsInLoopAndValidator ==
  /\ charLimit(contentRequest(req)) = validateMaxLength(contentRequest(req))
  /\ tokenLimit(contentRequest(req)) = validateMaxTokens(contentRequest(req))
  /\ charLimit(contentRequest(req)) =
       Coalesce(req.options.maxLength, StatedDefaults[req.platform][1])
  /\ tokenLimit(contentRequest(req)) =
       Coalesce(req.options.maxTokens, StatedDefaults[req.platform][2])
  /\ \A j \in 1..Len(variants) :
       /\ Len(variants[j].content) <= validateMaxLength(contentRequest(req))
       /\ countTokens(variants[j].content) <= validateMaxTokens(contentRequest(req))

\* A request without limits on instagram returned a variant: the loop and
\* the validator both went by 2200 characters and 550 tokens.
SameLimitsWitness ==
  /\ Completed
  /\ ReturnedVariants # <<>>
  /\ req.options.maxLength = None
  /\ req.options.maxTokens = None
  /\ req.platform = "instagram"
  /\ validateMaxLength(contentRequest(req)) = 2200
  /\ tokenLimit(contentRequest(req)) = 550

\* The text of the call after the first token pass and the first character
\* pass of applyOutputLimits.
AfterFirstRound ==
  CharPass(TokenPass(LimitsStart(calc.text), calc.maxTokens), calc.maxLength).text

\* C13. Clamp idempotence: clampToCharLimit of what clampToCharLimit
\* returned, with the same limit, is what it returned.
ClampIdempotent ==
  (calc.op = "clamp" /\ calc.second # None) => calc.second = calc.first

\* A text longer than a limit above 3 was cut, stripped of the whitespace
\* the cut ended on and given its ellipsis, and clamped again.
ClampIdempotentWitness ==
  /\ calc.op = "clamp"
  /\ calc.second # None
  /\ calc.maxLength > 3
  /\ Len(calc.text) > calc.maxLength
  /\ Len(calc.first[1]) < calc.maxLength
  /\ calc.first[1] # calc.text
  /\ calc.second = calc.first

\* C14. Both limits at once, and a fixed point: for positive maxTokens and
\* maxLength the text applyOutputLimits returns is at most maxLength long
\* and has at most maxTokens tokens, and applyOutputLimits of that text with
\* the same limits returns it with wasTruncated = false.
LimitsFixedPoint ==
  (calc.op = "limits" /\ calc.maxTokens > 0 /\ calc.maxLength > 0) =>
    /\ Len(calc.first[1].text) <= calc.maxLength
    /\ countTokens(calc.first[1].text) <= calc.maxTokens
    /\ calc.first[1].tokens = countTokens(calc.first[1].text)
    /\ calc.second # None =>
         /\ calc.second[1].text = calc.first[1].text
         /\ ~calc.second[1].wasTruncated

\* One token pass and one character pass left the text over the token
\* limit (the ellipsis of the clamp is a token more); the third pass cut
\* it, and the second call returned the same text.
LimitsFixedPointWitness ==
  /\ calc.op = "limits"
  /\ calc.maxTokens > 0
  /\ calc.maxLength > 0
  /\ calc.second # None
  /\ countTokens(AfterFirstRound) > calc.maxTokens
  /\ countTokens(calc.first[1].text) <= calc.maxTokens
  /\ calc.second[1].text = calc.first[1].text

\* C15. Sequential generation: at most one LLM call is in flight, it is the
\* call of the current attempt of the current variant, and the step that
\* sends the first prompt of a variant is the step that pushes the variant
\* before it (accepted, or clamped after its last attempt).
SequentialVariants ==
  /\ [](/\ Cardinality(inFlight) <= 1
        /\ (pc = "await") <=> (inFlight = {[variant |-> i, attempt |-> attempt]})
        /\ (pc = "await" => Len(variants) = i /\ prompt # None)
        /\ (pc # "await" => inFlight = {} /\ prompt = None))
  /\ [][(i' # i /\ pc' = "await") =>
          /\ pc = "await"
          /\ i' = i + 1
          /\ Len(variants') = Len(variants) + 1
          /\ Len(variants') = i'
          /\ variants'[i'].id = i'
          /\ inFlight' = {[variant |-> i', attempt |-> 1]}
          /\ (i' \in clamped' => attempt = maxAttempts)]_vars

\* The first attempt of the second variant is in flight, after the first
\* variant went through all its attempts and was clamped.
SequentialVariantsWitness ==
  /\ pc = "await"
  /\ i = 1
  /\ attempt = 1
  /\ Len(variants) = 1
  /\ clamped = {1}
  /\ inFlight = {[variant |-> 1, attempt |-> 1]}

\* C16. Accept on the first fit: a step that pushes a variant without the
\* clamp pushes the sanitized text of the attempt just answered, unmodified
\* and within maxLength and maxTokens, and leaves no call of that variant in
\* flight; a step that sends a retry follows an answer over a limit.
AcceptOnFirstFit ==
  [][/\ (Len(variants') = Len(variants) + 1 /\ Len(variants') \notin clamped') =>
          /\ variants'[i + 1].content =
               fn[<<i + 1, lastAnswer'[i + 1]>>].candidate.content
          /\ Len(variants'[i + 1].content) <= maxLengthOf
          /\ countTokens(variants'[i + 1].content) <= maxTokensOf
          /\ ~variants'[i + 1].metadata.wasTruncated
          /\ variants'[i + 1].metadata.originalContent = None
          /\ \A call \in inFlight' : call.variant # i
     /\ (pc = "await" /\ i' = i /\ attempt' = attempt + 1) =>
          /\ variants' = variants
          /\ prompt'[1].feedback # None
          /\ \/ prompt'[1].feedback[1].chars > maxLengthOf
             \/ prompt'[1].feedback[1].tokens > maxTokensOf]_vars

\* One variant was asked for and returned unclamped at its third attempt:
\* two answers over a limit, then one that fits.
AcceptOnFirstFitWitness ==
  /\ Completed
  /\ req.options.variants = 1
  /\ attempt = 3
  /\ clamped = {}
  /\ ReturnedVariants # <<>>
  /\ variants[1].content = LastText(1)
  /\ ~variants[1].metadata.wasTruncated

\* The LLM calls a request can send: one per variant and attempt.
PossibleCalls ==
  {[variant |-> v, attempt |-> a] : v \in 0..(req.options.variants - 1), a \in 1..4}

\* The call c comes before the call d: an earlier variant, or an earlier
\* attempt of the same variant.
Precedes(c, d) ==
  c.variant < d.variant \/ (c.variant = d.variant /\ c.attempt < d.attempt)

\* C17. Bounded attempts: a variant has at most 4 LLM calls; the calls of a
\* request for n variants are among 4 * n calls (variant, attempt) and each
\* call sent comes after the one before it, so none is sent twice and at
\* most 4 * n are sent; a further call for a variant follows an answer over
\* a limit; and the step after the answer to a 4th call pushes the variant
\* (clamped when the answer is over a limit) or ends the batch, with no 5th
\* call.
BoundedAttempts ==
  /\ [](/\ attempt <= 4
        /\ inFlight \subseteq PossibleCalls
        /\ Cardinality(PossibleCalls) = 4 * req.options.variants)
  /\ [][/\ inFlight' # inFlight =>
             \A c \in inFlight, d \in inFlight' : Precedes(c, d)
        /\ (pc = "await" /\ i' = i /\ attempt' > attempt) =>
             /\ attempt' = attempt + 1
             /\ prompt'[1].feedback # None
             /\ \/ prompt'[1].feedback[1].chars > maxLengthOf
                \/ prompt'[1].feedback[1].tokens > maxTokensOf
        /\ (pc = "await" /\ attempt = 4) =>
             /\ \/ thrown' # None
                \/ /\ Len(variants') = Len(variants) + 1
                   /\ (i + 1 \in clamped') <=>
                        ~WithinLimits(fn[<<i + 1, lastAnswer'[i + 1]>>].candidate,
                                      contentRequest(req))
             /\ \A call \in inFlight' : call.variant = i + 1 /\ call.attempt = 1]_vars

\* Two variants were asked for, each took the four calls of its attempts
\* and was clamped: 8 calls.
BoundedAttemptsWitness ==
  /\ Completed
  /\ req.options.variants = 2
  /\ attempt = 4
  /\ clamped = {1, 2}

\* C18. overLimit after the fallback clamp: a returned variant that went
\* through the fallback clamp and whose last attempt was longer than
\* maxLength has metadata.overLimit set and above 0.
OverLimitReported ==
  Done =>
    \A k \in 1..Len(ReturnedVariants) :
      (/\ ReturnedVariants[k].id \in clamped
       /\ Len(LastText(ReturnedVariants[k].id)) > maxLengthOf) =>
        /\ ReturnedVariants[k].metadata.overLimit # None
        /\ ReturnedVariants[k].metadata.overLimit[1] > 0

\* The texts of the call at the points of applyOutputLimits: the input,
\* and the text after each of the four passes.
OverflowPoints ==
  <<calc.text,
    TokenPass(LimitsStart(calc.text), calc.maxTokens).text,
    AfterFirstRound,
    TokenPass(CharPass(TokenPass(LimitsStart(calc.text), calc.maxTokens), calc.maxLength),
              calc.maxTokens).text,
    calc.first[1].text>>

\* The largest of the numbers of a non-empty set.
Largest(S) == CHOOSE x \in S : \A y \in S : y <= x

\* C19. Overflows are maxima from the input on: tokenOverflow is the most
\* the text was over maxTokens at any point of applyOutputLimits, the input
\* included, charOverflow the most it was over maxLength at any point, the
\* input included, and each is 0 when its limit was never exceeded.
OverflowMaxima ==
  (calc.op = "limits" /\ calc.maxTokens > 0 /\ calc.maxLength > 0) =>
    /\ calc.first[1].tokenOverflow =
         Largest({0} \cup {countTokens(OverflowPoints[k]) - calc.maxTokens : k \in 1..5})
    /\ calc.first[1].charOverflow =
         Largest({0} \cup {Len(OverflowPoints[k]) - calc.maxLength : k \in 1..5})

\* C20. Tokens bind first: when the input has more than maxTokens tokens
\* and its first maxTokens tokens are at most maxLength long,
\* applyOutputLimits returns tokenOverflow = tokens of the input - maxTokens,
\* charOverflow = 0, wasTruncated = true and a text within both limits.
TokensBindFirst ==
  (/\ calc.op = "limits"
   /\ calc.maxTokens > 0
   /\ calc.maxLength > 0
   /\ countTokens(calc.text) > calc.maxTokens
   /\ Len(truncateToTokenLimit(calc.text, calc.maxTokens).text) <= calc.maxLength) =>
    /\ calc.first[1].tokenOverflow = countTokens(calc.text) - calc.maxTokens
    /\ calc.first[1].tokenOverflow > 0
    /\ calc.first[1].charOverflow = 0
    /\ calc.first[1].wasTruncated
    /\ Len(calc.first[1].text) <= calc.maxLength
    /\ countTokens(calc.first[1].text) <= calc.maxTokens

\* A text within maxLength and of two tokens more than maxTokens was cut
\* to its first tokens, shorter than maxLength allows.
TokensBindFirstWitness ==
  /\ calc.op = "limits"
  /\ calc.maxTokens > 0
  /\ Len(calc.text) <= calc.maxLength
  /\ countTokens(calc.text) = calc.maxTokens + 2
  /\ calc.first[1].tokenOverflow = 2
  /\ calc.first[1].charOverflow = 0
  /\ calc.first[1].wasTruncated
  /\ Len(calc.first[1].text) < calc.maxLength

\* The reference of clampToCharLimit: the text when it is within maxLength,
\* its first maxLength characters when maxLength is 3 or less, and otherwise
\* its first maxLength - 3 characters without their trailing whitespace,
\* followed by three full stops.
ClampReference(text, maxLength) ==
  IF Len(text) <= maxLength THEN text
  ELSE IF maxLength <= 3 THEN SubSeq(text, 1, maxLength)
  ELSE DropTrailing(SubSeq(text, 1, maxLength - 3), Whitespace) \o <<".", ".", ".">>

\* C21. Clamp reference: for every text and every maxLength >= 0,
\* clampToCharLimit returns what the reference gives, and the result has at
\* most maxLength characters.
ClampMatchesReference ==
  calc.op = "clamp" =>
    /\ calc.first[1] = ClampReference(calc.text, calc.maxLength)
    /\ Len(calc.first[1]) <= calc.maxLength

\* A text longer than a limit above 3 was cut at maxLength - 3 on a space,
\* lost that space and got its ellipsis: one character short of the limit.
ClampReferenceWitness ==
  /\ calc.op = "clamp"
  /\ calc.second = None
  /\ calc.maxLength > 3
  /\ Len(calc.text) > calc.maxLength
  /\ calc.text[calc.maxLength - 3] = " "
  /\ Len(calc.first[1]) = calc.maxLength - 1

\* C22. Token truncation: truncateToTokenLimit returns the text itself with
\* wasTruncated = false when the text has at most maxTokens tokens; the
\* empty text with tokens = 0 and wasTruncated = true when maxTokens <= 0
\* and the text is not empty; and otherwise the decoding of the first
\* maxTokens tokens, a shorter text, with tokens = maxTokens and
\* wasTruncated = true.
TruncateMatchesReference ==
  calc.op = "truncate" =>
    /\ countTokens(calc.text) <= calc.maxTokens =>
         /\ calc.first[1].text = calc.text
         /\ ~calc.first[1].wasTruncated
    /\ (calc.maxTokens <= 0 /\ calc.text # <<>>) =>
         calc.first[1] = [text |-> <<>>, tokens |-> 0, wasTruncated |-> TRUE]
    /\ (calc.maxTokens > 0 /\ countTokens(calc.text) > calc.maxTokens) =>
         /\ calc.first[1].text = Concat(SubSeq(encode(calc.text), 1, calc.maxTokens))
         /\ calc.first[1].text = SubSeq(calc.text, 1, Len(calc.first[1].text))
         /\ Len(calc.first[1].text) < Len(calc.text)
         /\ calc.first[1].tokens = calc.maxTokens
         /\ calc.first[1].wasTruncated

\* A text of more tokens than a positive limit was cut to the limit.
TruncateReferenceWitness ==
  /\ calc.op = "truncate"
  /\ calc.maxTokens > 1
  /\ countTokens(calc.text) > calc.maxTokens
  /\ calc.first[1].tokens = calc.maxTokens
  /\ calc.first[1].wasTruncated
  /\ calc.first[1].text # calc.text

\* The feedback paragraph that states the measures of the candidate of an
\* answer to the variant of index k.
FeedbackOn(k, raw) ==
  [chars |-> fn[<<k + 1, raw>>].candidate.metadata.length,
   tokens |-> fn[<<k + 1, raw>>].candidate.metadata.tokenLength[1]]

\* C23. Retry feedback: the first attempt of a variant is sent with the
\* base prompt of that variant and nothing after it; every later attempt
\* follows the attempt before it of the same variant and is sent with the
\* base prompt followed by one feedback paragraph, which states the
\* character and token counts of an over-limit answer to that attempt.
RetryFeedback ==
  [][/\ (pc' = "await" /\ attempt' = 1) =>
          /\ i' = IF pc = "idle" THEN 0 ELSE i + 1
          /\ prompt' = Some([style |-> hookStyle(i'), feedback |-> <<>>])
     /\ (pc' = "await" /\ attempt' > 1) =>
          /\ pc = "await"
          /\ i' = i
          /\ attempt' = attempt + 1
          /\ prompt'[1].style = prompt[1].style
          /\ prompt'[1].style = hookStyle(i)
          /\ Len(prompt'[1].feedback) = 1
          /\ \E raw \in Responses :
               /\ ~WithinLimits(fn[<<i + 1, raw>>].candidate, contentRequest(req))
               /\ prompt'[1].feedback[1] = FeedbackOn(i, raw)]_vars

\* The second variant is at its third attempt: its prompt carries one
\* feedback paragraph, although the first variant, clamped, went through
\* three of them and this variant through one before.
RetryFeedbackWitness ==
  /\ pc = "await"
  /\ i = 1
  /\ attempt = 3
  /\ clamped = {1}
  /\ prompt[1].style = "Share an insight"
  /\ Len(prompt[1].feedback) = 1

\* C24. Style rotation: the hint of a variant depends on its index alone;
\* the variants of indices 0, 1 and 2 get "Ask a question", "Share an
\* insight" and "Tell a story", and no two consecutive variants of a
\* request, of 4 or 5 variants too, get the same hint.
StyleRotation ==
  calc.op = "styles" =>
    /\ \A k \in 1..Len(calc.first[1]) : calc.first[1][k] = hookStyle(k - 1)
    /\ calc.first[1][1] = "Ask a question"
    /\ Len(calc.first[1]) >= 2 => calc.first[1][2] = "Share an insight"
    /\ Len(calc.first[1]) >= 3 => calc.first[1][3] = "Tell a story"
    /\ \A k \in 1..(Len(calc.first[1]) - 1) : calc.first[1][k] # calc.first[1][k + 1]

\* The pieces of a text that are placeholder tokens of the template.
Placeholders(text) ==
  {text[k] : k \in 1..Len(text)} \cap
    {"{variants}", "{variantLabel}", "{postLabel}", "{replyLabel}", "{input}",
     "{platform}", "{maxLength}", "{maxTokens}", "{hashtagRules}", "{emojiRules}",
     "{originalPost}", "{author}", "{replyGoal}"}

\* The template buildPrompt selects for the call.
SelectedTemplate == IF calc.request.type = "reply" THEN replyPrompt ELSE composerPrompt

\* The singular labels are in the prompt when one variant is asked for, and
\* the plural ones otherwise.
LabelsAgree ==
  LET pieces == {calc.first[1][k] : k \in 1..Len(calc.first[1])}
      one    == calc.request.options.variants = 1
  IN IF calc.request.type = "reply"
       THEN /\ "reply" \in pieces <=> one
            /\ "replies" \in pieces <=> ~one
       ELSE /\ "post" \in pieces <=> one
            /\ "posts" \in pieces <=> ~one
            /\ "variant" \in pieces <=> one
            /\ "variants" \in pieces <=> ~one

\* C29. Placeholder substitution: for both templates the prompt holds no
\* placeholder token left of the template (none that the input did not
\* bring), the singular labels are used exactly when one variant is asked
\* for, and the input is in the prompt as it was given, also when it holds
\* a placeholder token.
PlaceholdersSubstituted ==
  calc.op = "prompt" =>
    /\ Placeholders(calc.first[1]) \subseteq Placeholders(calc.request.input)
    /\ LabelsAgree
    /\ \E p \in 1..Len(calc.first[1]) : OccursAt(calc.first[1], calc.request.input, p)

\* C25. Termination: when every LLM call eventually returns or fails, a
\* call of generateWithDirectOllama is followed by its return of a
\* GenerationResult, whatever the answers are, over the limits on every
\* attempt too; and it hands no exception to its caller.
GenerationTerminates ==
  /\ (pc = "await") ~> (pc = "done" /\ result # None)
  /\ [][pc = "await" =>
          /\ pc' \in {"await", "done"}
          /\ pc' = "done" => result' # None /\ response' # None
          /\ response' # None => "threw" \notin DOMAIN response'[1]]_vars

\* Every answer was over a limit, for both variants: each was clamped after
\* its fourth attempt, and the result was returned.
GenerationTerminatesWitness ==
  /\ pc = "done"
  /\ result # None
  /\ result[1].success
  /\ thrown = None
  /\ req.options.variants = 2
  /\ clamped = {1, 2}
  /\ Len(result[1].variants) = 2

\* C26. Measures of the final content: in every returned variant
\* metadata.length is the length of content and metadata.tokenLength is
\* countTokens of content, after validateOutput stripped hashtags or emojis
\* or enforced the limits too.
MeasuresOfFinalContent ==
  Completed =>
    \A k \in 1..Len(ReturnedVariants) :
      /\ ReturnedVariants[k].metadata.length = Len(ReturnedVariants[k].content)
      /\ ReturnedVariants[k].metadata.tokenLength =
           Some(countTokens(ReturnedVariants[k].content))

\* validateOutput made the content of a returned variant shorter than the
\* content the loop pushed, and the measures are those of the shorter one.
MeasuresOfFinalContentWitness ==
  /\ Completed
  /\ \E k \in 1..Len(ReturnedVariants) :
       \E j \in 1..Len(variants) :
         /\ variants[j].id = ReturnedVariants[k].id
         /\ Len(ReturnedVariants[k].content) < Len(variants[j].content)
         /\ variants[j].metadata.length = Len(variants[j].content)
         /\ ReturnedVariants[k].metadata.length = Len(ReturnedVariants[k].content)
         /\ ReturnedVariants[k].metadata.length < variants[j].metadata.length

\* C27. Accepted variants keep clean metadata: a variant accepted without
\* the fallback clamp is pushed, and returned by validateOutput, with
\* wasTruncated not true and with originalContent, originalLength,
\* overLimit and overTokenLimit unset.
AcceptedMetadataUntouched ==
  Completed =>
    /\ \A j \in 1..Len(variants) :
         variants[j].id \notin clamped =>
           /\ ~variants[j].metadata.wasTruncated
           /\ variants[j].metadata.originalContent = None
           /\ variants[j].metadata.originalLength = None
           /\ variants[j].metadata.overLimit = None
           /\ variants[j].metadata.overTokenLimit = None
    /\ \A k \in 1..Len(ReturnedVariants) :
         ReturnedVariants[k].id \notin clamped =>
           /\ ~ReturnedVariants[k].metadata.wasTruncated
           /\ ReturnedVariants[k].metadata.originalContent = None
           /\ ReturnedVariants[k].metadata.originalLength = None
           /\ ReturnedVariants[k].metadata.overLimit = None
           /\ ReturnedVariants[k].metadata.overTokenLimit = None

\* Of two returned variants the first was accepted and has clean metadata,
\* while the second was clamped and is marked.
AcceptedMetadataWitness ==
  /\ Completed
  /\ Len(ReturnedVariants) = 2
  /\ clamped = {2}
  /\ ReturnedVariants[1].id = 1
  /\ ~ReturnedVariants[1].metadata.wasTruncated
  /\ ReturnedVariants[1].metadata.originalContent = None
  /\ ReturnedVariants[2].metadata.wasTruncated
  /\ ReturnedVariants[2].metadata.originalContent # None

\* C28. Consistent flags: for positive limits, applyOutputLimits returns
\* wasTruncated = true exactly when the returned text differs from the
\* input, and exactly when tokenOverflow > 0 or charOverflow > 0; and the
\* returned tokens is countTokens of the returned text.
FlagsConsistent ==
  (calc.op = "limits" /\ calc.maxTokens > 0 /\ calc.maxLength > 0) =>
    /\ calc.first[1].wasTruncated <=> calc.first[1].text # calc.text
    /\ calc.first[1].wasTruncated <=>
         (calc.first[1].tokenOverflow > 0 \/ calc.first[1].charOverflow > 0)
    /\ calc.first[1].tokens = countTokens(calc.first[1].text)

\* A text within the token limit and over the character limit was clamped:
\* wasTruncated with charOverflow alone.
FlagsConsistentWitness ==
  /\ calc.op = "limits"
  /\ calc.maxTokens > 0
  /\ calc.maxLength > 0
  /\ calc.second = None
  /\ countTokens(calc.text) <= calc.maxTokens
  /\ calc.first[1].wasTruncated
  /\ calc.first[1].tokenOverflow = 0
  /\ calc.first[1].charOverflow > 0
  /\ calc.first[1].text # calc.text

\* C30. Routing and persistence: a request with an empty persona id is
\* rejected with 'Persona ID is required' before a persona is looked up or
\* an LLM call is sent, and no other request is; a request without userId
\* is never queued and never persisted and is answered with jobId
\* 'demo-sync'; a queued request has a userId and asks for more than 5
\* variants or has an input of 2000 characters or more, and is answered
\* with success = true and no variants; and content is persisted only for
\* a request with a userId whose result has success = true and at least
\* one variant.
RoutingConsistent ==
  /\ (BlankPersonaId(req) /\ pc # "idle") =>
       /\ pc = "threw"
       /\ response = Some([threw |-> "Persona ID is required"])
       /\ persona = None
       /\ persistedId = None
       /\ attempt = 0
       /\ inFlight = {}
       /\ result = None
       /\ persisted = <<>>
  /\ pc = "threw" => BlankPersonaId(req)
  /\ req.userId = None =>
       /\ pc # "queued"
       /\ persisted = <<>>
       /\ Done => response[1].jobId = "demo-sync"
  /\ pc = "queued" =>
       /\ req.userId # None
       /\ req.options.variants > 5 \/ req.inputLength >= 2000
       /\ response[1].success
       /\ response[1].variants = None
       /\ persisted = <<>>
       /\ result = None
       /\ attempt = 0
  /\ persisted # <<>> =>
       /\ Done
       /\ req.userId # None
       /\ result[1].success
       /\ Len(result[1].variants) >= 1

\* A request of a user for 6 variants of a short input was queued.
RoutingWitness ==
  /\ pc = "queued"
  /\ req.userId # None
  /\ req.options.variants = 6
  /\ req.inputLength < 2000
  /\ response[1].success
  /\ response[1].jobId = "job-1"
=============================================================================
